---- MODULE Spec2Model ----
(***************************************************************************)
(* A verification model of the editor hover subsystem:                     *)
(*   - ModesHoverController (src/src/vs/editor/contrib/hover/hover.ts),    *)
(*     the state machine that shows, hides and keeps sticky the content    *)
(*     hover and the glyph-margin hover;                                   *)
(*   - HoverColorPicker (src/unnamed/part_004), the editor-sync logic of   *)
(*     the hover colour picker;                                            *)
(*   - ColorHoverParticipant (hover.ts), the asynchronous colour hover     *)
(*     computation.                                                        *)
(* Each part has its own specification (SpecCtl, SpecPicker, SpecAsync);   *)
(* the variables of the other parts stay unchanged in it.                  *)
(***************************************************************************)
EXTENDS Integers, Sequences, FiniteSets, TLC

(***************************************************************************)
(* Bounds of the model.                                                    *)
(***************************************************************************)
\* Start columns of the ranges a mouse target or a show request may carry.
MaxCol == 1
\* Widths (endColumn - startColumn) of those ranges; width 1 is the width
\* at which the colour-decorator shift applies.
MaxWidth == 2
\* Line numbers of glyph-margin positions.
MaxLine == 2

(***************************************************************************)
(* ------------------------- HOVER CONTROLLER ---------------------------- *)
(***************************************************************************)
VARIABLES
    _isMouseDown,       \* ModesHoverController._isMouseDown
    _hoverClicked,      \* ModesHoverController._hoverClicked
    _isHoverEnabled,    \* ModesHoverController._isHoverEnabled
    _isHoverSticky,     \* ModesHoverController._isHoverSticky
    _isCurrentSticky,   \* ModesHoverController._isCurrentSticky
    _contentWidget,     \* ModesHoverController._contentWidget (and the widget's state)
    _glyphWidget,       \* ModesHoverController._glyphWidget (and the widget's state)
    blurHooked,         \* the contentWidget.onBlur listener is registered
    controllerDisposed  \* dispose() has run: _toUnhook and the configuration listener are disposed

ctlVars == <<_isMouseDown, _hoverClicked, _isHoverEnabled, _isHoverSticky,
             _isCurrentSticky, _contentWidget, _glyphWidget, blurHooked,
             controllerDisposed>>

\* The variables of the hover colour picker.
VARIABLES
    colorModel,                  \* colorHover.model: [color, colorPresentations]
    editorUpdatedByColorPicker,  \* the closure variable of _registerListeners
    pickerRange,                 \* the closure variable `range` of _registerListeners
    listening,                   \* the picker's listeners are registered (not disposed)
    hoverVisible,                \* the hover of the render context is on screen
    editorFocused,               \* the editor has the focus
    text,                        \* the buffer's text in the colour's range
    fetches,                     \* _updateColorPresentations calls not yet finished
    pickerType,                  \* ColorPickerType: "hover" or "standalone"
    _color                       \* StandaloneColorPicker._color (NoColor: undefined)

pickerVars == <<colorModel, editorUpdatedByColorPicker, pickerRange, listening, hoverVisible,
                editorFocused, text, fetches, pickerType, _color>>

\* The variables of the colour hover participant's computation.
VARIABLES
    editorHasModel,     \* this._editor.hasModel()
    hasColorDetector,   \* ColorDetector.get(this._editor) is defined
    lineDecorations,    \* the decorations computeAsync is given
    token,              \* the session's token: isCancellationRequested
    computeStage,       \* "notStarted", "awaiting" (in createColorHover), "created"
                        \* (createColorHover has returned), "finished", then
                        \* "renderedNone" or "renderedPicker"
    awaitedColor,       \* the colour whose presentations are awaited
    createdHover,       \* what createColorHover resolved to: <<>> or one model
    yielded,            \* the parts the computation resolved to
    cancelledAtYield,   \* the token was cancelled when the computation finished
    _colorPicker        \* ColorHoverParticipant._colorPicker: "undefined", or the
                        \* state of the picker it refers to, "live" or "disposed"

asyncVars == <<editorHasModel, hasColorDetector, lineDecorations, token,
               computeStage, awaitedColor, createdHover, yielded, cancelledAtYield,
               _colorPicker>>

\* The variables of a colour picker body and its input surfaces.
VARIABLES
    bodyColor,      \* model.color, as [h, s, a]
    selection,      \* where the saturation box's selection circle is painted
    sliders,        \* where each strip's slider is
    boxMonitor,     \* SaturationBox.monitor: the pointer whose drag created it, or NoPointer
    monitoring,     \* per surface, the pointers whose monitor is monitoring
    upListeners,    \* per surface, the pointers whose pointer-up listener is registered
    upOrder,        \* the registered pointer-up listeners, <<surface, pointer>>, in the order they were added
    pointers,       \* per pointer: "up", or where it went down
    bodyDisposed    \* the widget, and with it the body and its surfaces, is disposed

surfaceVars == <<bodyColor, selection, sliders, boxMonitor, monitoring, upListeners, upOrder,
                 pointers, bodyDisposed>>

\* The variables of the hover accessible view and the hover accessibility help.
VARIABLES
    activeCodeEditor,   \* ICodeEditorService.getActiveCodeEditor(): an editor or NoEditor
    focusedCodeEditor,  \* ICodeEditorService.getFocusedCodeEditor(): an editor or NoEditor
    hoverControllers,   \* the editors that have a HoverController contribution
    viewProvider,       \* HoverAccessibleView._provider: the editor it was created for
    lastOutcome            \* how the last getProvider call ended

accessVars == <<activeCodeEditor, focusedCodeEditor, hoverControllers, viewProvider,
                lastOutcome>>

\* The measured dimensions of the input surfaces, in pixels, and what they emit.
VARIABLES
    boxWidth,       \* SaturationBox.width
    boxHeight,      \* SaturationBox.height
    stripHeight,    \* Strip.height
    emitted         \* the last value fired through onDidChange, with its surface

measureVars == <<boxWidth, boxHeight, stripHeight, emitted>>

\* The variables of the utility-process worker service.
VARIABLES
    workers,        \* UtilityProcessWorkerMainService.workers: per configuration, a worker or NoWorker
    spawned,        \* how many workers createWorker has constructed
    workerConfig,   \* per worker, the configuration it was created for
    process,        \* per worker, its utility process: "none", "running", "killed" or "ended"
    workerDisposed, \* per worker, whether dispose() has run
    promise         \* per worker, what createWorker returned: "pending" or the reason it resolved with

workerVars == <<workers, spawned, workerConfig, process, workerDisposed, promise>>

\* The variables of the update service.
VARIABLES
    updateState,    \* AbstractUpdateService._state.type
    updateUrl,      \* whether AbstractUpdateService.url is set
    initialized,    \* whether initialize() has been called
    stateChanges,   \* how often _onStateChange has fired
    hooks,          \* the platform hooks invoked so far, in order
    quits           \* the lifecycle quit() calls of quitAndInstall not yet answered

updateVars == <<updateState, updateUrl, initialized, stateChanges, hooks, quits>>

\* The variables of the references model.
VARIABLES
    links,          \* ReferencesModel._links: the array the constructor was given, sorted
    files,          \* the FileReferences the constructor created: per file, its uri and its children
    groups,         \* ReferencesModel.groups: the array of FileReferences, each named by its index in files
    references,     \* ReferencesModel.references
    fired,          \* the references _onDidChangeReferenceRange.fire was called with, in order
    current         \* the reference a peek widget is at, or NoReference

refVars == <<links, files, groups, references, fired, current>>

\* The variables of the accessible-view providers of one hover controller.
VARIABLES
    shouldKeepOpenOnEditorMouseMoveOrLeave, \* the controller's flag
    focusedMarkdownHoverIndex,  \* what the controller's focusedMarkdownHoverIndex() returns
    controllerFocused,          \* whether the controller's focus() has been called last
    createdProviders            \* the providers getProvider has created, each with its fields

providerVars == <<shouldKeepOpenOnEditorMouseMoveOrLeave, focusedMarkdownHoverIndex,
                  controllerFocused, createdProviders>>

\* What each part leaves alone.
otherThanCtl == <<pickerVars, asyncVars, surfaceVars, accessVars,
                  measureVars, workerVars, updateVars, refVars, providerVars>>
otherThanPicker == <<ctlVars, asyncVars, surfaceVars, accessVars,
                     measureVars, workerVars, updateVars, refVars, providerVars>>
otherThanAsync == <<ctlVars, pickerVars, surfaceVars, accessVars,
                    measureVars, workerVars, updateVars, refVars, providerVars>>
otherThanSurface == <<ctlVars, pickerVars, asyncVars, accessVars,
                      measureVars, workerVars, updateVars, refVars, providerVars>>
otherThanAccess == <<ctlVars, pickerVars, asyncVars, surfaceVars,
                     measureVars, workerVars, updateVars, refVars, providerVars>>
otherThanMeasure == <<ctlVars, pickerVars, asyncVars, surfaceVars,
                      accessVars, workerVars, updateVars, refVars, providerVars>>
otherThanWorker == <<ctlVars, pickerVars, asyncVars, surfaceVars,
                     accessVars, measureVars, updateVars, refVars, providerVars>>
otherThanUpdate == <<ctlVars, pickerVars, asyncVars, surfaceVars,
                     accessVars, measureVars, workerVars, refVars, providerVars>>
otherThanRef == <<ctlVars, pickerVars, asyncVars, surfaceVars,
                  accessVars, measureVars, workerVars, updateVars, providerVars>>
otherThanProvider == <<ctlVars, pickerVars, asyncVars, surfaceVars,
                       accessVars, measureVars, workerVars, updateVars, refVars>>

\* Ranges are <<startLineNumber, startColumn, endLineNumber, endColumn>>.
NoRange == <<0, 0, 0, 0>>
TargetRanges == { <<1, c, 1, c + w>> : c \in 1..MaxCol, w \in 1..MaxWidth }
Lines == 1..MaxLine
NoLine == 0

\* ModesContentHoverWidget.ID and ModesGlyphHoverWidget.ID, and any other detail.
ContentHoverID == "editor.contrib.modesContentHoverWidget"
GlyphHoverID == "editor.contrib.modesGlyphHoverWidget"
OtherDetail == "other"

HoverStartModes == {"Delayed", "Immediate"}

\* The content hover widget: not yet created (exists = FALSE), or created and
\* hidden, started (computing, nothing rendered yet) or visible.  colorPicker
\* is what the widget's isColorPickerVisible() returns, isResizing is
\* resizable.isResizing.  instance tells the instances apart: the first one
\* the controller constructs is 1, the next would be 2; 0 is null.
NullContentWidget ==
    [exists |-> FALSE, state |-> "hidden", colorPicker |-> FALSE, isResizing |-> FALSE,
     instance |-> 0]
NewContentWidget ==
    [exists |-> TRUE, state |-> "hidden", colorPicker |-> FALSE, isResizing |-> FALSE,
     instance |-> 1]
\* The glyph hover widget: not yet created, hidden or showing.
NullGlyphWidget == [exists |-> FALSE, state |-> "hidden", instance |-> 0]
NewGlyphWidget == [exists |-> TRUE, state |-> "hidden", instance |-> 1]

\* The controller's state as one record, so that a handler is a function
\* from state to state and handlers can call one another.  calls collects the
\* widget calls a handler makes, in order, with their arguments.
This ==
    [isMouseDown |-> _isMouseDown, hoverClicked |-> _hoverClicked,
     isHoverEnabled |-> _isHoverEnabled, isHoverSticky |-> _isHoverSticky,
     isCurrentSticky |-> _isCurrentSticky, contentWidget |-> _contentWidget,
     glyphWidget |-> _glyphWidget, blurHooked |-> blurHooked,
     disposed |-> controllerDisposed, calls |-> <<>>]

\* A widget call made by a handler, in the order made.
Call(op, range, mode, focus, source, sticky, line) ==
    [op |-> op, range |-> range, mode |-> mode, focus |-> focus,
     source |-> source, sticky |-> sticky, line |-> line]
SimpleCall(op) == Call(op, NoRange, "none", FALSE, "none", FALSE, NoLine)

(***************************************************************************)
(* The widgets' own methods.  ModesContentHoverWidget and                  *)
(* ModesGlyphHoverWidget are not part of the source excerpt: they are      *)
(* modelled from the specification (hide hides, startShowingAt starts a    *)
(* computation whose result is rendered later, or hides if there is none). *)
(***************************************************************************)
\* contentWidget.hide()
ContentWidget_hide(w) ==
    [w EXCEPT !.state = "hidden", !.colorPicker = FALSE, !.isResizing = FALSE]

\* contentWidget.startShowingAt(...): a new computation starts.
ContentWidget_startShowingAt(w) ==
    [w EXCEPT !.state = "started", !.colorPicker = FALSE, !.isResizing = FALSE]

\* glyphWidget.hide()
GlyphWidget_hide(w) == [w EXCEPT !.state = "hidden"]

\* glyphWidget.startShowingAt(lineNumber)
GlyphWidget_startShowingAt(w) == [w EXCEPT !.state = "showing"]

\* this._contentWidget?.hide()
ContentHide(s) ==
    IF s.contentWidget.exists
    THEN [s EXCEPT !.contentWidget = ContentWidget_hide(@),
                   !.calls = Append(@, SimpleCall("content.hide"))]
    ELSE s

\* this._glyphWidget?.hide()
GlyphHide(s) ==
    IF s.glyphWidget.exists
    THEN [s EXCEPT !.glyphWidget = GlyphWidget_hide(@),
                   !.calls = Append(@, SimpleCall("glyph.hide"))]
    ELSE s

(***************************************************************************)
(* ModesHoverController's methods, hover.ts lines 37-326.                  *)
(***************************************************************************)
\* isColorPickerVisible(): this._contentWidget?.isColorPickerVisible() || false
isColorPickerVisible(s) == s.contentWidget.exists /\ s.contentWidget.colorPicker

\* this._contentWidget?.resizable.isResizing ?? false
isResizing(s) == s.contentWidget.exists /\ s.contentWidget.isResizing

\* _hideWidgets without its guard (a mutation of _hideWidgets).
_hideWidgets_unguarded(s) ==
    ContentHide(GlyphHide([s EXCEPT !.hoverClicked = FALSE, !.isCurrentSticky = FALSE]))

\* _hideWidgets(), lines 275-284
_hideWidgets(s) ==
    IF s.isMouseDown /\ s.hoverClicked /\ isColorPickerVisible(s)
    THEN s
    ELSE ContentHide(GlyphHide([s EXCEPT !.hoverClicked = FALSE, !.isCurrentSticky = FALSE]))

\* hideWidgetsEventHandler, lines 89-93
hideWidgetsEventHandler(s) ==
    IF ~s.isCurrentSticky THEN _hideWidgets(s) ELSE s

\* _initContentWidget(), lines 302-309: creates the widget and registers its
\* onBlur listener, which _toUnhook holds unless it is disposed already.
_initContentWidget(s) ==
    [s EXCEPT !.contentWidget =
                  [NewContentWidget EXCEPT !.instance = s.contentWidget.instance + 1],
              !.blurHooked = TRUE]

\* The test for an existing content widget left out: a widget per show.
EnsureContentWidget_always(s) == _initContentWidget(s)

\* if (!this._contentWidget) { this._initContentWidget(); }
EnsureContentWidget(s) ==
    IF s.contentWidget.exists THEN s ELSE _initContentWidget(s)

\* this._contentWidget?.startShowingAt(range, mode, focus, source, modifiers, sticky)
ContentStart(s, range, mode, focus, source, sticky) ==
    IF s.contentWidget.exists
    THEN [s EXCEPT !.contentWidget = ContentWidget_startShowingAt(@),
                   !.calls = Append(@, Call("content.startShowingAt", range, mode, focus, source, sticky, NoLine))]
    ELSE s

\* _onEditorScrollChanged that spares a sticky hover (a mutation).
_onEditorScrollChanged_respectsSticky(s, scrollTopChanged, scrollLeftChanged) ==
    IF scrollTopChanged \/ scrollLeftChanged THEN hideWidgetsEventHandler(s) ELSE s

\* _onEditorScrollChanged(e), lines 127-131
_onEditorScrollChanged(s, scrollTopChanged, scrollLeftChanged) ==
    IF scrollTopChanged \/ scrollLeftChanged THEN _hideWidgets(s) ELSE s

\* _onEditorMouseDown(mouseEvent), lines 133-154
_onEditorMouseDown(s, target) ==
    LET s1 == [s EXCEPT !.isMouseDown = TRUE] IN
    IF target.type = "CONTENT_WIDGET" /\ target.detail = ContentHoverID
    THEN [s1 EXCEPT !.hoverClicked = TRUE]
    ELSE IF target.type = "OVERLAY_WIDGET" /\ target.detail = GlyphHoverID
    THEN s1
    ELSE LET s2 == IF target.type # "OVERLAY_WIDGET" /\ target.detail # GlyphHoverID
                   THEN [s1 EXCEPT !.hoverClicked = FALSE]
                   ELSE s1
         IN _hideWidgets(s2)

\* _onEditorMouseUp(mouseEvent), lines 156-158
_onEditorMouseUp(s) == [s EXCEPT !.isMouseDown = FALSE]

\* showAtRange without the colour-decorator shift (a mutation of showAtRange).
showAtRange_noShift(target) == target.range

\* lines 213-219: the range the content hover is shown at; a hover on a colour
\* decorator box (a `before` decoration one column wide) is shifted by one.
showAtRange(target) ==
    LET r == target.range
        hoverOnColorDecorator == target.colorBox /\ r[4] - r[2] = 1
    IN IF hoverOnColorDecorator THEN <<r[1], r[2] + 1, r[3], r[4] + 1>> ELSE r

\* if (!this._glyphWidget) { this._glyphWidget = new ModesGlyphHoverWidget(...) }
EnsureGlyphWidget(s) ==
    IF s.glyphWidget.exists
    THEN s
    ELSE [s EXCEPT !.glyphWidget =
                       [NewGlyphWidget EXCEPT !.instance = s.glyphWidget.instance + 1]]

\* this._glyphWidget.startShowingAt(lineNumber)
GlyphStart(s, line) ==
    [s EXCEPT !.glyphWidget = GlyphWidget_startShowingAt(@),
              !.calls = Append(@, Call("glyph.startShowingAt", NoRange, "none", FALSE, "none", FALSE, line))]

\* The part of _onEditorMouseMove after its early returns, with the
\* glyph-margin branch not hiding the content hover (a mutation).
MouseMoveDispatch_keepsContent(s, target) ==
    LET targetType == IF target.type = "CONTENT_EMPTY" /\ target.nearText
                      THEN "CONTENT_TEXT" ELSE target.type
    IN IF targetType = "CONTENT_TEXT"
       THEN LET s1 == GlyphHide(s) IN
            IF s1.isHoverEnabled /\ target.range # NoRange
            THEN ContentStart(EnsureContentWidget(s1), showAtRange(target),
                              "Delayed", FALSE, "Mouse", FALSE)
            ELSE s1
       ELSE IF targetType = "GUTTER_GLYPH_MARGIN"
       THEN IF s.isHoverEnabled /\ target.line # NoLine
            THEN GlyphStart(EnsureGlyphWidget(s), target.line)
            ELSE s
       ELSE _hideWidgets(s)

\* lines 198-237: the part of _onEditorMouseMove after its early returns.
MouseMoveDispatch(s, target) ==
    LET targetType == IF target.type = "CONTENT_EMPTY" /\ target.nearText
                      THEN "CONTENT_TEXT" ELSE target.type
    IN IF targetType = "CONTENT_TEXT"
       THEN LET s1 == GlyphHide(s) IN
            IF s1.isHoverEnabled /\ target.range # NoRange
            THEN ContentStart(EnsureContentWidget(s1), showAtRange(target),
                              "Delayed", FALSE, "Mouse", FALSE)
            ELSE s1
       ELSE IF targetType = "GUTTER_GLYPH_MARGIN"
       THEN LET s1 == ContentHide(s) IN
            IF s1.isHoverEnabled /\ target.line # NoLine
            THEN GlyphStart(EnsureGlyphWidget(s1), target.line)
            ELSE s1
       ELSE _hideWidgets(s)

\* _onEditorMouseMove without the colour picker's exception (a mutation).
_onEditorMouseMove_noPickerException(s, target, selectionCollapsed) ==
    IF isResizing(s) THEN s
    ELSE IF s.isMouseDown /\ s.hoverClicked THEN s
    ELSE IF s.isHoverSticky /\ target.type = "CONTENT_WIDGET" /\ target.detail = ContentHoverID THEN s
    ELSE IF s.isHoverSticky /\ ~selectionCollapsed THEN s
    ELSE IF s.isHoverSticky /\ target.type = "OVERLAY_WIDGET" /\ target.detail = GlyphHoverID THEN s
    ELSE IF s.isCurrentSticky THEN s
    ELSE MouseMoveDispatch(s, target)

\* _onEditorMouseMove(mouseEvent), lines 160-238.  selectionCollapsed is
\* mouseEvent.event.browserEvent.view?.getSelection()?.isCollapsed (a missing
\* view or selection counts as not collapsed, as in the source's negation).
_onEditorMouseMove(s, target, selectionCollapsed) ==
    IF isResizing(s) THEN s
    ELSE IF s.isMouseDown /\ s.hoverClicked THEN s
    ELSE IF s.isHoverSticky /\ target.type = "CONTENT_WIDGET" /\ target.detail = ContentHoverID THEN s
    ELSE IF s.isHoverSticky /\ ~selectionCollapsed THEN s
    ELSE IF ~s.isHoverSticky /\ target.type = "CONTENT_WIDGET" /\ target.detail = ContentHoverID
            /\ isColorPickerVisible(s) THEN s
    ELSE IF s.isHoverSticky /\ target.type = "OVERLAY_WIDGET" /\ target.detail = GlyphHoverID THEN s
    ELSE IF s.isCurrentSticky THEN s
    ELSE MouseMoveDispatch(s, target)

\* _onKeyDown that lets a sticky hover be hidden by any key (a mutation).
_onKeyDown_ignoresSticky(s, key) ==
    IF key # "Modifier" THEN _hideWidgets(s) ELSE s

\* _onKeyDown(e), lines 258-267.  key is "Escape", "Modifier" (a key whose
\* keybinding isModifierKey()) or "Other".
_onKeyDown(s, key) ==
    IF s.isCurrentSticky /\ key # "Escape" THEN s
    ELSE IF key # "Modifier" THEN _hideWidgets(s)
    ELSE s

\* _onWidgetBlur(), lines 269-273
_onWidgetBlur(s) ==
    IF s.isCurrentSticky THEN _hideWidgets(s) ELSE s

\* The content widget fires onBlur: the listener added to _toUnhook at line
\* 304 runs _onWidgetBlur unless _unhookEvents (line 119) has disposed it.
contentWidget_onBlur(s) ==
    IF s.blurHooked THEN _onWidgetBlur(s) ELSE s

\* The onMouseLeave listener that ignores a resize in progress (a mutation).
onMouseLeave_ignoresResize(s) ==
    IF ~s.isCurrentSticky THEN hideWidgetsEventHandler(s) ELSE s

\* The onMouseLeave listener, lines 109-113
onMouseLeave(s) ==
    IF ~s.isCurrentSticky /\ ~isResizing(s) THEN hideWidgetsEventHandler(s) ELSE s

\* The onDidChangeModel listener, line 114
onDidChangeModel(s) == hideWidgetsEventHandler(s)

\* showContentHover(range, mode, focus, sticky?), lines 290-296.  sticky is
\* "undefined", "true" or "false".
showContentHover(s, range, mode, focus, sticky) ==
    LET s1 == [s EXCEPT !.isCurrentSticky = (sticky = "true")] IN
    ContentStart(EnsureContentWidget(s1), range, mode, focus, "Action", s1.isCurrentSticky)

\* Positions are <<lineNumber, column>>; NoPosition is an absent args.position.
NoPosition == <<0, 0>>
Positions == { <<l, c>> : l \in Lines, c \in 1..MaxCol }

\* The arguments of the Show Hover action: position?, sticky?, mode? (an
\* absent mode is "undefined"; the uri only selects the editor).
ShowHoverArgs ==
    [position : Positions \cup {NoPosition},
     sticky : {"undefined", "true", "false"},
     mode : HoverStartModes \cup {"undefined"}]

\* Line 377: const focus = args.sticky ?? (accessibilitySupport === Enabled)
ShowHoverFocus(args, accessibilityEnabled) ==
    IF args.sticky = "undefined" THEN accessibilityEnabled ELSE args.sticky = "true"

\* ShowHoverAction.run(accessor, editor, args), lines 350-380.
ShowHoverAction_run(s, hasModel, hasController, args, editorPosition, accessibilityEnabled) ==
    IF ~hasModel THEN s
    ELSE IF ~hasController THEN s
    ELSE LET position == IF args.position = NoPosition THEN editorPosition ELSE args.position
             range == <<position[1], position[2], position[1], position[2]>>
             focus == ShowHoverFocus(args, accessibilityEnabled)
             mode == IF args.mode = "undefined" THEN "Immediate" ELSE args.mode
         IN showContentHover(s, range, mode, focus, args.sticky)

\* The onDidChangeConfiguration listener, lines 80-85, for a change of the
\* hover option: _unhookEvents() clears _toUnhook (and with it the onBlur
\* listener), _hookEvents() reads the option again (lines 95-97).  dispose()
\* disposes the listener (line 322), and it runs no more.
onDidChangeConfiguration(s, enabled, sticky) ==
    IF s.disposed THEN s
    ELSE [s EXCEPT !.blurHooked = FALSE, !.isHoverEnabled = enabled, !.isHoverSticky = sticky]

\* dispose(), lines 319-325: the listeners _toUnhook holds are disposed,
\* the onBlur listener among them, then _toUnhook itself, the configuration
\* listener and the widgets that exist (what a widget does when disposed is
\* the widget's).  A listener registered after _toUnhook was disposed is not
\* held by it, and a later dispose() leaves it registered.
ModesHoverController_dispose(s) ==
    LET s1 == IF s.disposed THEN s ELSE [s EXCEPT !.blurHooked = FALSE]
        s2 == [s1 EXCEPT !.disposed = TRUE]
        s3 == IF s2.glyphWidget.exists
              THEN [s2 EXCEPT !.calls = Append(@, SimpleCall("glyph.dispose"))]
              ELSE s2
    IN IF s3.contentWidget.exists
       THEN [s3 EXCEPT !.calls = Append(@, SimpleCall("content.dispose"))]
       ELSE s3

(***************************************************************************)
(* The events of the editor and of the widgets, and the controller's       *)
(* reaction to each.                                                       *)
(***************************************************************************)
\* A mouse target: its type and detail, and for a text or empty-content
\* target its range (NoRange when it has none), whether the mouse is within
\* epsilon of the text (lines 199-204) and whether the element hit carries a
\* ced-colorBox class; for a glyph-margin target its position's line.
Target(type, detail, range, line, nearText, colorBox) ==
    [type |-> type, detail |-> detail, range |-> range, line |-> line,
     nearText |-> nearText, colorBox |-> colorBox]

WidgetTargets ==
    { Target("CONTENT_WIDGET", ContentHoverID, NoRange, NoLine, FALSE, FALSE),
      Target("CONTENT_WIDGET", OtherDetail, NoRange, NoLine, FALSE, FALSE),
      Target("OVERLAY_WIDGET", GlyphHoverID, NoRange, NoLine, FALSE, FALSE),
      Target("OVERLAY_WIDGET", OtherDetail, NoRange, NoLine, FALSE, FALSE) }

TextTargets ==
    { Target("CONTENT_TEXT", OtherDetail, r, NoLine, FALSE, cb) :
        r \in TargetRanges \cup {NoRange}, cb \in BOOLEAN }

EmptyTargets ==
    { Target("CONTENT_EMPTY", OtherDetail, r, NoLine, near, FALSE) :
        r \in TargetRanges, near \in BOOLEAN }

GlyphTargets ==
    { Target("GUTTER_GLYPH_MARGIN", OtherDetail, NoRange, l, FALSE, FALSE) :
        l \in Lines \cup {NoLine} }

OtherTargets == { Target("SCROLLBAR", OtherDetail, NoRange, NoLine, FALSE, FALSE) }

MouseTargets == WidgetTargets \cup TextTargets \cup EmptyTargets \cup GlyphTargets \cup OtherTargets

\* The targets the mouse can hit in state s: a hover widget can be hit only
\* while it is on screen.
TargetsAt(s) ==
    { target \in MouseTargets :
        /\ (target.type = "CONTENT_WIDGET" /\ target.detail = ContentHoverID)
              => (s.contentWidget.exists /\ s.contentWidget.state = "visible")
        /\ (target.type = "OVERLAY_WIDGET" /\ target.detail = GlyphHoverID)
              => (s.glyphWidget.exists /\ s.glyphWidget.state = "showing") }

Keys == {"Escape", "Modifier", "Other"}
StickyArgs == {"undefined", "true", "false"}

\* The state `s` a handler returns becomes the next state.
Becomes(s) ==
    /\ _isMouseDown' = s.isMouseDown
    /\ _hoverClicked' = s.hoverClicked
    /\ _isHoverEnabled' = s.isHoverEnabled
    /\ _isHoverSticky' = s.isHoverSticky
    /\ _isCurrentSticky' = s.isCurrentSticky
    /\ _contentWidget' = s.contentWidget
    /\ _glyphWidget' = s.glyphWidget
    /\ blurHooked' = s.blurHooked
    /\ controllerDisposed' = s.disposed
    /\ UNCHANGED otherThanCtl

\* editor.onMouseDown, hooked only while hover is enabled (lines 98-99)
EditorMouseDown ==
    /\ ~controllerDisposed
    /\ _isHoverEnabled
    /\ \E target \in TargetsAt(This) :
         Becomes(_onEditorMouseDown(This, target))

\* editor.onMouseUp, hooked only while hover is enabled (line 100)
EditorMouseUp ==
    /\ ~controllerDisposed
    /\ _isHoverEnabled
    /\ Becomes(_onEditorMouseUp(This))

\* editor.onMouseMove, hooked in both branches (lines 101, 105)
EditorMouseMove ==
    /\ ~controllerDisposed
    /\ \E target \in TargetsAt(This), selectionCollapsed \in BOOLEAN :
         Becomes(_onEditorMouseMove(This, target, selectionCollapsed))

\* editor.onKeyDown, hooked in both branches (lines 102, 106)
EditorKeyDown ==
    /\ ~controllerDisposed
    /\ \E key \in Keys :
         Becomes(_onKeyDown(This, key))

\* editor.onMouseLeave (line 109)
EditorMouseLeave ==
    /\ ~controllerDisposed
    /\ Becomes(onMouseLeave(This))

\* editor.onDidChangeModel (line 114)
EditorDidChangeModel ==
    /\ ~controllerDisposed
    /\ Becomes(onDidChangeModel(This))

\* editor.onDidScrollChange (line 115)
EditorDidScrollChange ==
    /\ ~controllerDisposed
    /\ \E scrollTopChanged \in BOOLEAN, scrollLeftChanged \in BOOLEAN :
         Becomes(_onEditorScrollChanged(This, scrollTopChanged, scrollLeftChanged))

\* contentWidget.onBlur (line 304): the visible widget loses focus; the
\* controller hears it while its listener is registered.
ContentWidgetBlur ==
    /\ _contentWidget.exists /\ _contentWidget.state = "visible"
    /\ blurHooked
    /\ Becomes(_onWidgetBlur(This))

\* A call of the public showContentHover (by an action or a command).
ShowContentHover ==
    \E range \in TargetRanges, mode \in HoverStartModes, focus \in BOOLEAN, sticky \in StickyArgs :
        Becomes(showContentHover(This, range, mode, focus, sticky))

\* The Show Hover action runs on this controller's editor.
RunShowHoverAction ==
    \E args \in ShowHoverArgs, editorPosition \in Positions,
       accessibilityEnabled \in BOOLEAN, hasModel \in BOOLEAN :
        Becomes(ShowHoverAction_run(This, hasModel, TRUE, args, editorPosition,
                                    accessibilityEnabled))

\* editor.onDidChangeConfiguration with e.hasChanged(EditorOption.hover)
EditorDidChangeConfiguration ==
    /\ ~controllerDisposed
    /\ \E enabled \in BOOLEAN, sticky \in BOOLEAN :
         Becomes(onDidChangeConfiguration(This, enabled, sticky))

\* A call of the public dispose.
Dispose_controller ==
    Becomes(ModesHoverController_dispose(This))

\* The content widget's computation ends with parts: the hover is rendered,
\* with or without a colour picker among its parts.
ContentWidgetRenders ==
    /\ _contentWidget.exists /\ _contentWidget.state = "started"
    /\ \E picker \in BOOLEAN :
         Becomes([This EXCEPT !.contentWidget.state = "visible",
                              !.contentWidget.colorPicker = picker])

\* The content widget hides itself: its computation ended without a part, or
\* a rendered part asked the render context to hide.
ContentWidgetHidesItself ==
    /\ _contentWidget.exists /\ _contentWidget.state # "hidden"
    /\ Becomes([This EXCEPT !.contentWidget = ContentWidget_hide(@)])

\* The user starts or ends resizing the visible content widget.
ContentWidgetResize ==
    /\ _contentWidget.exists /\ _contentWidget.state = "visible"
    /\ Becomes([This EXCEPT !.contentWidget.isResizing = ~@])

\* The glyph widget's computation ends without a part: it hides itself.
GlyphWidgetHidesItself ==
    /\ _glyphWidget.exists /\ _glyphWidget.state = "showing"
    /\ Becomes([This EXCEPT !.glyphWidget = GlyphWidget_hide(@)])

\* The state after the constructor (lines 60-86): no widget, no button down,
\* the hover options as the editor has them.
InitCtl ==
    /\ _isMouseDown = FALSE
    /\ _hoverClicked = FALSE
    /\ _isHoverEnabled \in BOOLEAN
    /\ _isHoverSticky \in BOOLEAN
    /\ _isCurrentSticky = FALSE
    /\ _contentWidget = NullContentWidget
    /\ _glyphWidget = NullGlyphWidget
    /\ blurHooked = FALSE
    /\ controllerDisposed = FALSE

NextCtl ==
    \/ EditorMouseDown
    \/ EditorMouseUp
    \/ EditorMouseMove
    \/ EditorKeyDown
    \/ EditorMouseLeave
    \/ EditorDidChangeModel
    \/ EditorDidScrollChange
    \/ ContentWidgetBlur
    \/ ShowContentHover
    \/ RunShowHoverAction
    \/ EditorDidChangeConfiguration
    \/ Dispose_controller
    \/ ContentWidgetRenders
    \/ ContentWidgetHidesItself
    \/ ContentWidgetResize
    \/ GlyphWidgetHidesItself

(***************************************************************************)
(* ------------------------ HOVER COLOUR PICKER -------------------------- *)
(* HoverColorPicker._registerListeners (part_004, lines 740-760) and the   *)
(* AbstractColorPicker methods it calls.  An async function is modelled    *)
(* with one step per suspension point: the request to the provider, the    *)
(* provider's answer (_updateColorPresentations resumes and stores it),    *)
(* and the resumption of the flush listener (the flag and the edit).       *)
(***************************************************************************)
\* Colours a picker can hold.
MaxColor == 2
\* Provider requests that may be in flight together.
MaxFetches == 2

Colors == 1..MaxColor
\* An undefined colour.
NoColor == 0

\* The label of a presentation the provider generated for a colour, and the
\* raw formatting of a colour value.
ProviderPresentation(color) == [by |-> "provider", color |-> color]
RawPresentation(color) == [by |-> "raw", color |-> color]
\* Text written to the buffer by something other than the picker.
ExternalText == [by |-> "external", color |-> 0]

\* The number of columns a text takes in the buffer: the format of the
\* provider is one column wider than the raw format and than external text.
Width(label) == IF label.by = "provider" THEN 2 ELSE 1

\* The range of a text that starts at the colour's start column.
ColorStartColumn == 1
RangeOf(label) == <<1, ColorStartColumn, 1, ColorStartColumn + Width(label)>>

\* An absent textEdit.
NoEdit == [range |-> NoRange, text |-> ExternalText]
\* An additional edit of a presentation (for example an import it needs).
AdditionalEdit == [range |-> <<1, 0, 1, 0>>, text |-> ExternalText]

\* An IColorPresentation: its label, its textEdit (or NoEdit) and its
\* additionalTextEdits.
ColorPresentation(label, textEdit, additionalTextEdits) ==
    [label |-> label, textEdit |-> textEdit,
     additionalTextEdits |-> additionalTextEdits]

\* The presentations a provider generates when asked for a colour at a
\* range: a label alone, or a label with a textEdit for that range and an
\* additional edit.
ProviderPresentations(color, atRange) ==
    { ColorPresentation(ProviderPresentation(color), NoEdit, <<>>),
      ColorPresentation(ProviderPresentation(color),
                        [range |-> atRange, text |-> ProviderPresentation(color)],
                        <<AdditionalEdit>>) }

\* What getColorPresentations can resolve to for a colour at a range:
\* undefined, an empty list or a list of presentations.
ProviderAnswers(color, atRange) ==
    { [defined |-> FALSE, list |-> <<>>], [defined |-> TRUE, list |-> <<>>] }
      \cup { [defined |-> TRUE, list |-> <<pres>>] :
               pres \in ProviderPresentations(color, atRange) }

\* colorPresentations || []
OrEmpty(answer) == IF answer.defined THEN answer.list ELSE <<>>

\* new ColorPickerModel(color, [], 0) followed by the assignment of its
\* colorPresentations (hover.ts, lines 919-920).
ColorPickerModel(color, colorPresentations, presentationIndex) ==
    [color |-> color, colorPresentations |-> colorPresentations,
     presentationIndex |-> presentationIndex]

\* ColorPickerModel.guessColorPresentation(color, originalText) (the class
\* is not part of the sources; the specification's section 4.1): the first
\* presentation whose label is the original text becomes the current one;
\* with none the index stays.
guessColorPresentation(model, color, originalText) ==
    LET matches == {i \in 1..Len(model.colorPresentations) :
                       model.colorPresentations[i].label = originalText}
    IN IF matches = {} THEN model
       ELSE [model EXCEPT !.presentationIndex =
                (CHOOSE i \in matches : \A j \in matches : i <= j) - 1]

\* createColorHover after its await, lines 919-923: the model it returns.
createColorHover(color, originalText, answer) ==
    guessColorPresentation(ColorPickerModel(color, OrEmpty(answer), 0), color, originalText)

\* The picker as one record; calls collects what a listener did to the editor.
Picker ==
    [colorModel |-> colorModel,
     editorUpdatedByColorPicker |-> editorUpdatedByColorPicker,
     range |-> pickerRange,
     listening |-> listening, hoverVisible |-> hoverVisible,
     editorFocused |-> editorFocused, text |-> text, fetches |-> fetches,
     type |-> pickerType, _color |-> _color,
     calls |-> <<>>]

RemoveAt(seq, i) == SubSeq(seq, 1, i - 1) \o SubSeq(seq, i + 1, Len(seq))

\* The calls in flight have no order among them: they are kept sorted by
\* this key, so that one collection of calls is one value.
FetchKey(f) ==
    ((((CASE f.kind = "change" -> 0 [] f.kind = "flush" -> 1 [] f.kind = "update" -> 2) * 2
        + (IF f.stage = "fetched" THEN 1 ELSE 0)) * 100 + f.color) * 100) + f.range[4]

InsertFetch(seq, f) ==
    LET n == Cardinality({ i \in 1..Len(seq) : FetchKey(seq[i]) <= FetchKey(f) })
    IN SubSeq(seq, 1, n) \o <<f>> \o SubSeq(seq, n + 1, Len(seq))

\* What model.presentation is when the list has no presentation at the
\* index.
undefined == [undefined |-> TRUE]

\* ColorPickerModel.presentation as the code that reads it shows it (the
\* class is not part of the sources): the presentation at the index, and
\* undefined when the list holds none.  ColorPickerHeader, which is built
\* for a model created with an empty list (hover.ts, line 919), tests it
\* before it reads the label (line 101); _updateEditorModel does not (line
\* 627).
presentation(model) ==
    IF Len(model.colorPresentations) = 0
    THEN undefined
    ELSE model.colorPresentations[model.presentationIndex + 1]

\* this._context.hide(): the hover leaves the screen and its rendered parts,
\* the picker among them, are disposed.
context_hide(p) == [p EXCEPT !.hoverVisible = FALSE, !.listening = FALSE]

\* AbstractColorPicker._hide(), lines 653-656
_hide(p) == [context_hide(p) EXCEPT !.editorFocused = TRUE]

\* The content listener without the flag (a mutation): every change hides.
onDidChangeModelContent_hidesAlways(p) ==
    IF ~p.listening THEN p ELSE _hide(p)

\* The onDidChangeModelContent listener, lines 750-756.
onDidChangeModelContent(p) ==
    IF ~p.listening THEN p
    ELSE IF p.editorUpdatedByColorPicker
         THEN [p EXCEPT !.editorUpdatedByColorPicker = FALSE]
         ELSE _hide(p)

\* The onDidChangeModelContent listener of the standalone picker, lines
\* 711-713.
Standalone_onDidChangeModelContent(p) ==
    IF ~p.listening THEN p ELSE _hide(p)

\* The content-change event reaches the listener the picker registered.
contentChanged(p) ==
    IF p.type = "standalone" THEN Standalone_onDidChangeModelContent(p)
    ELSE onDidChangeModelContent(p)

\* editor.executeEdits(source, edits): the first edit's text replaces the
\* colour's text and the buffer's content-change event is delivered before
\* the call returns.
executeEdits(p, textEdits) ==
    contentChanged(
        [p EXCEPT !.text = textEdits[1].text,
                  !.calls = Append(@, [op |-> "executeEdits", edits |-> textEdits])])

\* editor.pushUndoStop()
pushUndoStop(p) ==
    [p EXCEPT !.calls = Append(@, [op |-> "pushUndoStop", edits |-> <<>>])]

\* editor.getModel()._getTrackedRange(trackedRange) after the edit: the
\* replaced range, ending where the new text ends.
TrackedRangeAfter(edit) ==
    <<edit.range[1], edit.range[2], edit.range[3], edit.range[2] + Width(edit.text)>>

\* Reading a property of undefined: the function is left with a TypeError
\* and what follows the read is not done.
ThrowsTypeError(p) == [p EXCEPT !.calls = Append(@, [op |-> "TypeError", edits |-> <<>>])]

\* AbstractColorPicker._updateEditorModel, lines 625-638, with the range it
\* returns stored by its caller (line 748): the edit is the presentation's
\* textEdit or, without one, its label put at the range.  Line 627 reads
\* model.presentation.textEdit without a test of model.presentation.
_updateEditorModel(p, trackedRangeGone) ==
    LET pres == presentation(p.colorModel)
        edit == IF pres.textEdit # NoEdit THEN pres.textEdit
                ELSE [range |-> p.range, text |-> pres.label]
        textEdits == <<edit>> \o pres.additionalTextEdits
        replaceRange == edit.range
        q == pushUndoStop(executeEdits(p, textEdits))
    IN IF pres = undefined THEN ThrowsTypeError(p)
       ELSE [q EXCEPT !.range = IF trackedRangeGone THEN replaceRange
                                ELSE TrackedRangeAfter(edit)]

\* _updateColorPresentations up to its await, lines 640-649: the request,
\* for the colour and the range it is given.
_updateColorPresentations_request(p, kind, color) ==
    [p EXCEPT !.fetches = InsertFetch(@, [kind |-> kind, color |-> color,
                                          range |-> p.range, stage |-> "requested"])]

\* _updateColorPresentations after its await, line 650:
\* colorPickerModel.colorPresentations = colorPresentations || []
_updateColorPresentations_resume(p, i, answer) ==
    LET q == [p EXCEPT !.colorModel.colorPresentations = OrEmpty(answer)]
    IN IF p.fetches[i].kind # "change"
       THEN [q EXCEPT !.fetches = InsertFetch(RemoveAt(@, i),
                                              [p.fetches[i] EXCEPT !.stage = "fetched"])]
       ELSE [q EXCEPT !.fetches = RemoveAt(@, i)]

\* The onColorFlushed listener up to its await, lines 745-746.
onColorFlushed(p, color) == _updateColorPresentations_request(p, "flush", color)

\* The onColorFlushed listener after its await, lines 747-748: the flag is
\* set before _updateEditorModel is called, and stays set when that throws.
onColorFlushed_resume(p, i, trackedRangeGone) ==
    LET q == [p EXCEPT !.editorUpdatedByColorPicker = TRUE,
                       !.fetches = RemoveAt(@, i)]
    IN _updateEditorModel(q, trackedRangeGone)

\* The onDidChangeColor listener, lines 757-759: the fetch is not awaited.
onDidChangeColor(p, color) == _updateColorPresentations_request(p, "change", color)

\* A buffer edit made by something other than the picker.
externalEdit(p) == contentChanged([p EXCEPT !.text = ExternalText])

PickerBecomes(p) ==
    /\ colorModel' = p.colorModel
    /\ editorUpdatedByColorPicker' = p.editorUpdatedByColorPicker
    /\ pickerRange' = p.range
    /\ listening' = p.listening
    /\ hoverVisible' = p.hoverVisible
    /\ editorFocused' = p.editorFocused
    /\ text' = p.text
    /\ fetches' = p.fetches
    /\ pickerType' = p.type
    /\ _color' = p._color
    /\ UNCHANGED otherThanPicker

\* No listener is waiting to resume after a completed fetch.  A listener
\* resumes in a microtask, before the next event from outside is delivered.
NoResumePending == \A i \in 1..Len(fetches) : fetches[i].stage # "fetched"

\* The user picks a colour on the picker's surfaces: model.color = c fires
\* onDidChangeColor.
ColorChanged ==
    /\ NoResumePending
    /\ listening /\ Len(fetches) < MaxFetches
    /\ \E c \in Colors :
         PickerBecomes(onDidChangeColor([Picker EXCEPT !.colorModel.color = c], c))

\* The user releases the pointer: model.flushColor() fires onColorFlushed
\* with the model's colour.
ColorFlushed ==
    /\ NoResumePending
    /\ listening /\ Len(fetches) < MaxFetches
    /\ PickerBecomes(onColorFlushed(Picker, colorModel.color))

\* The provider answers one of the requests in flight, in any order.
PresentationsArrive ==
    \E i \in 1..Len(fetches) :
        /\ fetches[i].stage = "requested"
        /\ \E answer \in ProviderAnswers(fetches[i].color, fetches[i].range) :
             PickerBecomes(_updateColorPresentations_resume(Picker, i, answer))

\* A flush listener whose fetch has completed resumes.
FlushResumes ==
    \E i \in 1..Len(fetches) :
        /\ fetches[i].kind = "flush" /\ fetches[i].stage = "fetched"
        /\ PickerBecomes(onColorFlushed_resume(Picker, i, FALSE))

\* Something else edits the buffer.
ExternalEdit ==
    /\ NoResumePending
    /\ PickerBecomes(externalEdit(Picker))

\* The hover is hidden by the controller; its rendered parts are disposed.
HoverHidden ==
    /\ NoResumePending
    /\ hoverVisible
    /\ PickerBecomes(context_hide(Picker))

\* The focus moves between the editor and the hover.
FocusMoves ==
    /\ NoResumePending
    /\ hoverVisible
    /\ PickerBecomes([Picker EXCEPT !.editorFocused = ~@])

\* The state after renderHoverParts created the picker (hover.ts, line 851):
\* the hover is on screen, the listeners are registered, the flag is false.
InitPicker ==
    /\ \E c \in Colors :
         /\ text \in {ProviderPresentation(c), RawPresentation(c)}
         /\ \E answer \in ProviderAnswers(c, RangeOf(text)) :
               colorModel = createColorHover(c, text, answer)
    /\ pickerRange = RangeOf(text)
    /\ editorUpdatedByColorPicker = FALSE
    /\ listening = TRUE
    /\ hoverVisible = TRUE
    /\ editorFocused \in BOOLEAN
    /\ fetches = <<>>
    /\ pickerType = "hover"
    /\ _color = NoColor

NextPicker ==
    \/ ColorChanged
    \/ ColorFlushed
    \/ PresentationsArrive
    \/ FlushResumes
    \/ ExternalEdit
    \/ HoverHidden
    \/ FocusMoves

(***************************************************************************)
(* ---------------------- STANDALONE COLOUR PICKER ----------------------- *)
(* StandaloneColorPicker, part_004 lines 667-718, over the same model,     *)
(* editor and provider as the hover picker.                                *)
(***************************************************************************)
\* The onColorFlushed listener that edits as the hover picker's does (a
\* mutation).
Standalone_onColorFlushed_edits(p, color) ==
    _updateEditorModel([p EXCEPT !._color = color], FALSE)

\* The onColorFlushed listener, lines 708-710.
Standalone_onColorFlushed(p, color) == [p EXCEPT !._color = color]

\* The onDidChangeColor listener, lines 714-716: a fetch for the new colour
\* at the range of the colour hover, not awaited.
Standalone_onDidChangeColor(p, color) ==
    _updateColorPresentations_request(p, "change", color)

\* StandaloneColorPicker.updateEditorModel up to its await, lines 689-696.
updateEditorModel(p, hasModel) ==
    IF ~hasModel THEN p
    ELSE IF p._color # NoColor
         THEN _updateColorPresentations_request(p, "update", p._color)
         ELSE p

\* updateEditorModel after its await, line 697: the range returned by
\* _updateEditorModel goes to a local variable.
updateEditorModel_resume(p, i, trackedRangeGone) ==
    LET q == _updateEditorModel([p EXCEPT !.fetches = RemoveAt(@, i)],
                                trackedRangeGone)
    IN [q EXCEPT !.range = p.range]

\* The user picks a colour on the picker's surfaces.
StandaloneColorChanged ==
    /\ NoResumePending
    /\ listening /\ Len(fetches) < MaxFetches
    /\ \E c \in Colors :
         PickerBecomes(Standalone_onDidChangeColor(
                           [Picker EXCEPT !.colorModel.color = c], c))

\* The user releases the pointer: model.flushColor().
StandaloneColorFlushed ==
    /\ NoResumePending
    /\ listening
    /\ PickerBecomes(Standalone_onColorFlushed(Picker, colorModel.color))

\* The command that inserts the colour invokes updateEditorModel.
UpdateEditorModelInvoked ==
    /\ NoResumePending
    /\ listening /\ Len(fetches) < MaxFetches
    /\ \E hasModel \in BOOLEAN :
         PickerBecomes(updateEditorModel(Picker, hasModel))

\* An updateEditorModel call whose fetch has completed resumes.
UpdateResumes ==
    \E i \in 1..Len(fetches) :
        /\ fetches[i].kind = "update" /\ fetches[i].stage = "fetched"
        /\ PickerBecomes(updateEditorModel_resume(Picker, i, FALSE))

\* The state after the constructor (lines 672-683) ran _registerListeners
\* (lines 701-717): the first fetch is in flight.  The field _color is
\* declared without an initializer after the base constructor assigned it:
\* whether the assignment survives depends on how class fields are emitted.
InitStandalone ==
    /\ \E c \in Colors :
         /\ text \in {ProviderPresentation(c), RawPresentation(c)}
         /\ \E answer \in ProviderAnswers(c, RangeOf(text)) :
               colorModel = createColorHover(c, text, answer)
         /\ _color \in {c, NoColor}
         /\ fetches = <<[kind |-> "change", color |-> c, range |-> RangeOf(text),
                         stage |-> "requested"]>>
    /\ pickerRange = RangeOf(text)
    /\ editorUpdatedByColorPicker = FALSE
    /\ listening = TRUE
    /\ hoverVisible = TRUE
    /\ editorFocused = FALSE
    /\ pickerType = "standalone"

NextStandalone ==
    \/ StandaloneColorChanged
    \/ StandaloneColorFlushed
    \/ UpdateEditorModelInvoked
    \/ UpdateResumes
    \/ PresentationsArrive
    \/ ExternalEdit
    \/ HoverHidden

(***************************************************************************)
(* ----------------------- COLOUR HOVER PARTICIPANT ---------------------- *)
(* ColorHoverParticipant.computeAsync (hover.ts, lines 820-845) and        *)
(* createColorHover (lines 912-924), one step per suspension point.        *)
(***************************************************************************)
\* Line decorations at the anchor.
MaxDecorations == 2

\* A decoration: whether colorDetector.isColorDecoration(d) holds, whether
\* colorDetector.getColorData(...) finds data for it, and the colour of the data.
Decoration(isColor, hasData, color) ==
    [isColor |-> isColor, hasData |-> hasData, color |-> color]

Decorations ==
    { Decoration(FALSE, FALSE, 0), Decoration(TRUE, FALSE, 0) }
      \cup { Decoration(TRUE, TRUE, c) : c \in Colors }

DecorationLists ==
    UNION { [1..n -> Decorations] : n \in 0..MaxDecorations }

\* lines 832-843: the first decoration that is a colour decoration with
\* colour data, 0 when there is none.
RECURSIVE FirstColorData(_, _)
FirstColorData(ds, i) ==
    IF i > Len(ds) THEN 0
    ELSE IF ds[i].isColor /\ ds[i].hasData THEN i
    ELSE FirstColorData(ds, i + 1)

\* What getColorPresentations can resolve to for the hovered colour: the
\* answers of the provider, and lists of two presentations, the provider's
\* format and the raw one.
HoverAnswers(color, atRange) ==
    ProviderAnswers(color, atRange)
      \cup { [defined |-> TRUE,
              list |-> <<pres, ColorPresentation(RawPresentation(color), NoEdit, <<>>)>>] :
               pres \in ProviderPresentations(color, atRange) }

\* What the user can have typed for a colour.
OriginalTexts(color) == {ProviderPresentation(color), RawPresentation(color)}

\* _computeAsync after its await, lines 839-840, and ColorHover.from: the
\* token is not read.
_computeAsync_resume(colorHover, isCancellationRequested) ==
    <<colorHover>>

\* _computeAsync that awaits the data of the first colour decoration even
\* without a colour detector (a mutation).
_computeAsync_noDetectorTest(hasModel, hasDetector, ds) ==
    LET i == FirstColorData(ds, 1) IN
    IF ~hasModel \/ i = 0
    THEN [awaits |-> FALSE, color |-> 0, result |-> <<>>]
    ELSE [awaits |-> TRUE, color |-> ds[i].color, result |-> <<>>]

\* _computeAsync up to its first await or to a return, lines 825-844:
\* whether it awaits createColorHover, for which colour, and what it
\* returns when it does not.
_computeAsync(hasModel, hasDetector, ds) ==
    LET i == FirstColorData(ds, 1) IN
    IF ~hasModel \/ ~hasDetector \/ i = 0
    THEN [awaits |-> FALSE, color |-> 0, result |-> <<>>]
    ELSE [awaits |-> TRUE, color |-> ds[i].color, result |-> <<>>]

\* The participant with its picker; created tells whether a handler made
\* a new HoverColorPicker, returned what it returned.
Participant ==
    [_colorPicker |-> _colorPicker, created |-> FALSE, returned |-> "nothing"]

\* ColorHoverParticipant.renderHoverParts, lines 847-853.
renderHoverParts(part, hoverParts, hasModel) ==
    IF Len(hoverParts) = 0 \/ ~hasModel
    THEN [part EXCEPT !.returned = "Disposable.None"]
    ELSE [part EXCEPT !._colorPicker = "live", !.created = TRUE,
                      !.returned = "picker"]

\* Disposing what renderHoverParts returned: the picker when it returned
\* one; the participant's field is not touched.
disposeRendered(part, returned) ==
    IF returned = "picker" /\ part._colorPicker = "live"
    THEN [part EXCEPT !._colorPicker = "disposed"]
    ELSE part

\* ColorHoverParticipant.isColorPickerVisible, lines 859-861.
Participant_isColorPickerVisible(part) == part._colorPicker # "undefined"

\* The hover operation calls computeAsync(anchor, lineDecorations, token):
\* _computeAsync runs to its first await or to a return (lines 825-844).
ComputeAsyncStarts ==
    /\ computeStage = "notStarted"
    /\ LET c == _computeAsync(editorHasModel, hasColorDetector, lineDecorations) IN
         IF ~c.awaits
         THEN /\ computeStage' = "finished"
              /\ yielded' = c.result
              /\ cancelledAtYield' = token
              /\ UNCHANGED awaitedColor
         ELSE /\ computeStage' = "awaiting"
              /\ awaitedColor' = c.color
              /\ UNCHANGED <<yielded, cancelledAtYield>>
    /\ UNCHANGED <<editorHasModel, hasColorDetector, lineDecorations, token,
                   createdHover, _colorPicker>>
    /\ UNCHANGED otherThanAsync

\* The session is cancelled: by a hide, a new show request or a model change.
TokenCancelled ==
    /\ ~token
    /\ token' = TRUE
    /\ UNCHANGED <<editorHasModel, hasColorDetector, lineDecorations,
                   computeStage, awaitedColor, createdHover, yielded,
                   cancelledAtYield, _colorPicker>>
    /\ UNCHANGED otherThanAsync

\* getColorPresentations resolves: createColorHover resumes and returns
\* (lines 919-923); _computeAsync is still at its await.
CreateColorHoverResumes ==
    /\ computeStage = "awaiting"
    /\ \E originalText \in OriginalTexts(awaitedColor) :
         \E answer \in HoverAnswers(awaitedColor, RangeOf(originalText)) :
             createdHover' = <<createColorHover(awaitedColor, originalText, answer)>>
    /\ computeStage' = "created"
    /\ UNCHANGED <<editorHasModel, hasColorDetector, lineDecorations, token,
                   awaitedColor, yielded, cancelledAtYield, _colorPicker>>
    /\ UNCHANGED otherThanAsync

\* _computeAsync resumes in a later microtask (lines 839-840) and the items
\* are emitted.
ComputeAsyncResumes ==
    /\ computeStage = "created"
    /\ yielded' = _computeAsync_resume(createdHover[1], token)
    /\ computeStage' = "finished"
    /\ cancelledAtYield' = token
    /\ UNCHANGED <<editorHasModel, hasColorDetector, lineDecorations, token,
                   awaitedColor, createdHover, _colorPicker>>
    /\ UNCHANGED otherThanAsync

\* The content hover widget renders what the computation yielded; the
\* editor may have lost or changed its model in the meantime.
RenderHoverParts ==
    /\ computeStage = "finished"
    /\ \E hasModel \in BOOLEAN :
         LET r == renderHoverParts(Participant, yielded, hasModel) IN
         /\ editorHasModel' = hasModel
         /\ _colorPicker' = r._colorPicker
         /\ computeStage' = IF r.created THEN "renderedPicker" ELSE "renderedNone"
    /\ UNCHANGED <<hasColorDetector, lineDecorations, token, awaitedColor,
                   createdHover, yielded, cancelledAtYield>>
    /\ UNCHANGED otherThanAsync

\* The hover is hidden: the widget disposes what renderHoverParts returned
\* and is ready for the next hover, with the decorations of its line.
RenderedPartsDisposed ==
    /\ computeStage \in {"renderedNone", "renderedPicker"}
    /\ _colorPicker' = disposeRendered(Participant,
                           IF computeStage = "renderedPicker" THEN "picker"
                           ELSE "Disposable.None")._colorPicker
    /\ computeStage' = "notStarted"
    /\ lineDecorations' \in DecorationLists
    /\ hasColorDetector' \in BOOLEAN
    /\ token' = FALSE
    /\ awaitedColor' = 0
    /\ createdHover' = <<>>
    /\ yielded' = <<>>
    /\ cancelledAtYield' = FALSE
    /\ UNCHANGED editorHasModel
    /\ UNCHANGED otherThanAsync

InitAsync ==
    /\ editorHasModel \in BOOLEAN
    /\ hasColorDetector \in BOOLEAN
    /\ lineDecorations \in DecorationLists
    /\ token = FALSE
    /\ computeStage = "notStarted"
    /\ awaitedColor = 0
    /\ createdHover = <<>>
    /\ yielded = <<>>
    /\ cancelledAtYield = FALSE
    /\ _colorPicker = "undefined"

NextAsync ==
    \/ ComputeAsyncStarts
    \/ TokenCancelled
    \/ CreateColorHoverResumes
    \/ ComputeAsyncResumes
    \/ RenderHoverParts
    \/ RenderedPartsDisposed

(***************************************************************************)
(* ------------------ INPUT SURFACES OF THE COLOUR PICKER ---------------- *)
(* The saturation box and the two strips of a colour picker body, with the *)
(* pointers of the document.  Values in [0,1] are counted in steps of      *)
(* 1/MaxValue, the hue in steps of 360/MaxValue, and a pointer offset in   *)
(* steps of the surface's height (or width) over MaxValue.                 *)
(***************************************************************************)
\* The number of steps of the value grid.
MaxValue == 1
\* The pointers (mouse, touch contacts) of the document.
MaxPointers == 2

Values == 0..MaxValue
Pointers == 1..MaxPointers
NoPointer == 0
\* The surfaces, in the order the body constructs them (lines 203-205).
Strips == {"opacity", "hue"}
Surfaces == {"saturation"} \cup Strips
\* Where a pointer can be pressed: inside a surface or one step beyond an
\* edge of it (a captured pointer keeps reporting moves outside).
Offsets == (0 - 1)..(MaxValue + 1)

\* new HSVA(h, s, v, a); the box's two coordinates s and v are handled
\* alike and s stands for both.
HSVA(h, s, a) == [h |-> h, s |-> s, a |-> a]
\* The colours of a model: a hue read from a colour is below 360.
SurfaceColors == { HSVA(h, s, a) : h \in 0..(MaxValue - 1), s \in Values, a \in Values }

\* The body with its model, its surfaces and the document's pointers, as
\* one record; calls collects what a handler emitted and painted.
Body ==
    [color |-> bodyColor, selection |-> selection, sliders |-> sliders,
     monitor |-> boxMonitor, monitoring |-> monitoring,
     upListeners |-> upListeners, order |-> upOrder, pointers |-> pointers, disposed |-> bodyDisposed,
     calls |-> <<>>]

Emit(b, op, surface) ==
    [b EXCEPT !.calls = Append(@, [op |-> op, surface |-> surface])]

\* Math.max(0, Math.min(1, x))
Clamp01(x) == IF x < 0 THEN 0 ELSE IF x > MaxValue THEN MaxValue ELSE x

\* monitor.isMonitoring() of the monitor a pointer's drag started.
isMonitoring(b, surface, p) == p \in b.monitoring[surface]

\* SaturationBox.paintSelection, lines 368-371.
paintSelection(b, s) == [b EXCEPT !.selection = s]

\* SaturationBox.onDidChangeColor, lines 373-380.
SaturationBox_onDidChangeColor(b, color) ==
    IF b.monitor # NoPointer /\ isMonitoring(b, "saturation", b.monitor)
    THEN b
    ELSE paintSelection(Emit(b, "paint", "saturation"), color.s)

\* OpacityStrip.getValue (line 485) and HueStrip.getValue (line 497).
getValue(strip, color) ==
    IF strip = "opacity" THEN color.a ELSE MaxValue - color.h

\* Strip.updateSliderPosition, lines 459-461.
updateSliderPosition(b, strip, value) == [b EXCEPT !.sliders[strip] = value]

\* Strip.onDidChangeColor, lines 425-428.
Strip_onDidChangeColor(b, strip, color) ==
    updateSliderPosition(b, strip, getValue(strip, color))

\* OpacityStrip.onDidChangeColor, lines 475-482: the overlay is painted anew.
OpacityStrip_onDidChangeColor(b, color) ==
    Emit(Strip_onDidChangeColor(b, "opacity", color), "paint", "opacity")

\* The onDidChangeColor callback of a surface.
onDidChangeColor_of(b, surface, color) ==
    CASE surface = "saturation" -> SaturationBox_onDidChangeColor(b, color)
      [] surface = "opacity" -> OpacityStrip_onDidChangeColor(b, color)
      [] surface = "hue" -> Strip_onDidChangeColor(b, "hue", color)

\* model.color = color: the colour is replaced and the change event is
\* delivered to the surfaces in the order they registered.
setColor(b, color) ==
    LET b0 == [b EXCEPT !.color = color]
        b1 == SaturationBox_onDidChangeColor(b0, color)
        b2 == OpacityStrip_onDidChangeColor(b1, color)
    IN Strip_onDidChangeColor(b2, "hue", color)

\* AbstractColorPickerBody.onDidSaturationValueChange, lines 160-163.
onDidSaturationValueChange(b, s) == setColor(b, HSVA(b.color.h, s, b.color.a))

\* AbstractColorPickerBody.onDidOpacityChange, lines 165-168.
onDidOpacityChange(b, a) == setColor(b, HSVA(b.color.h, b.color.s, a))

\* AbstractColorPickerBody.onDidHueChange, lines 170-175.
onDidHueChange(b, value) ==
    LET h == MaxValue - value
    IN setColor(b, HSVA(IF h = MaxValue THEN 0 ELSE h, b.color.s, b.color.a))

\* SaturationBox.onDidChangePosition, lines 326-332.
onDidChangePosition(b, left) ==
    LET s == Clamp01(left)
    IN onDidSaturationValueChange(
           Emit(paintSelection(b, s), "onDidChange", "saturation"), s)

\* Strip.onDidChangeTop, lines 452-457, with the body's listener of the
\* strip's onDidChange (lines 216, 220).
onDidChangeTop(b, strip, top) ==
    LET value == Clamp01(MaxValue - top)
        b1 == Emit(updateSliderPosition(b, strip, value), "onDidChange", strip)
    IN IF strip = "opacity" THEN onDidOpacityChange(b1, value)
       ELSE onDidHueChange(b1, value)

\* SaturationBox.onPointerDown, lines 303-324: the monitor of the box is
\* replaced, the position is taken unless the selection circle was hit,
\* then the monitoring starts and the pointer-up listener is registered.
SaturationBox_onPointerDown(b, p, targetIsElement, onMarker, offset) ==
    IF ~targetIsElement THEN b
    ELSE LET b1 == [b EXCEPT !.monitor = p]
             b2 == IF onMarker THEN b1 ELSE onDidChangePosition(b1, offset)
         IN [b2 EXCEPT !.monitoring["saturation"] = @ \cup {p},
                       !.upListeners["saturation"] = @ \cup {p},
                       !.order = Append(@, <<"saturation", p>>)]

\* Strip.onPointerDown, lines 430-450.
Strip_onPointerDown(b, strip, p, targetIsElement, onMarker, offset) ==
    IF ~targetIsElement THEN b
    ELSE LET b1 == IF onMarker THEN b ELSE onDidChangeTop(b, strip, offset)
         IN [b1 EXCEPT !.monitoring[strip] = @ \cup {p},
                       !.upListeners[strip] = @ \cup {p},
                       !.order = Append(@, <<strip, p>>)]

\* A pointer goes down on a surface.
onPointerDown(b, surface, p, targetIsElement, onMarker, offset) ==
    LET b1 == IF surface = "saturation"
              THEN SaturationBox_onPointerDown(b, p, targetIsElement, onMarker, offset)
              ELSE Strip_onPointerDown(b, surface, p, targetIsElement, onMarker, offset)
    IN [b1 EXCEPT !.pointers[p] = IF targetIsElement THEN surface ELSE "elsewhere"]

\* A move of a pointer that is down: the monitor that captured the pointer
\* passes it to the callback given to startMonitoring (lines 314, 442).
onPointerMove(b, p, offset) ==
    LET surface == b.pointers[p]
    IN IF surface \in Surfaces /\ isMonitoring(b, surface, p)
       THEN IF surface = "saturation" THEN onDidChangePosition(b, offset)
            ELSE onDidChangeTop(b, surface, offset)
       ELSE b

\* The body's subscription to a surface's onColorFlushed (lines 213, 217,
\* 221), registered with the body and gone once the body is disposed:
\* AbstractColorPickerBody.flushColor, lines 156-158.
flushColor(b, surface) ==
    IF b.disposed THEN b ELSE Emit(b, "model.flushColor", surface)

\* dispose() of the widget: the body and its surfaces dispose what they
\* registered, the pointer-down and model listeners and the monitors of the
\* drags (lines 290-291, 307, 413-414, 434).  The pointer-up listeners
\* (lines 316, 444) were not registered and stay on the document.
dispose(b) ==
    [b EXCEPT !.disposed = TRUE, !.monitoring = [surface \in Surfaces |-> {}]]

\* The pointer-up listener of a strip that emits nothing (a mutation).
pointerUpListener_silent(b, surface, q) ==
    LET b1 == [b EXCEPT !.upListeners[surface] = @ \ {q},
                        !.order = SelectSeq(@, LAMBDA l : l # <<surface, q>>)]
    IN [b1 EXCEPT !.monitoring[surface] = @ \ {q}]

\* The pointer-up listener registered by the pointer-down of pointer q on a
\* surface.  Box, lines 316-323: fire onColorFlushed, dispose the listener,
\* stop this.monitor if there is one.  Strip, lines 444-449: fire, dispose,
\* stop the drag's own monitor.
pointerUpListener(b, surface, q) ==
    LET b1 == flushColor(Emit(b, "onColorFlushed", surface), surface)
        b2 == [b1 EXCEPT !.upListeners[surface] = @ \ {q},
                         !.order = SelectSeq(@, LAMBDA l : l # <<surface, q>>)]
    IN IF surface = "saturation"
       THEN IF b2.monitor # NoPointer
            THEN [b2 EXCEPT !.monitoring[surface] = @ \ {b2.monitor},
                            !.monitor = NoPointer]
            ELSE b2
       ELSE [b2 EXCEPT !.monitoring[surface] = @ \ {q}]

\* The pointer-up listeners registered on the document.
Registered(b) == { b.order[i] : i \in 1..Len(b.order) }

\* A pointer-up in the document reaches every registered listener, in the
\* order the listeners were added.
RECURSIVE FirePointerUp(_)
FirePointerUp(b) ==
    IF b.order = <<>> THEN b
    ELSE LET l == Head(b.order)
         IN FirePointerUp(pointerUpListener(b, l[1], l[2]))

\* A pointer is released: the listeners fire, and the monitor that captured
\* the pointer ends its capture.
onPointerUp(b, p) ==
    LET b1 == FirePointerUp(b)
    IN [b1 EXCEPT !.monitoring = [surface \in Surfaces |-> @[surface] \ {p}],
                  !.pointers[p] = "up"]

BodyBecomes(b) ==
    /\ bodyColor' = b.color
    /\ selection' = b.selection
    /\ sliders' = b.sliders
    /\ boxMonitor' = b.monitor
    /\ monitoring' = b.monitoring
    /\ upListeners' = b.upListeners
    /\ upOrder' = b.order
    /\ pointers' = b.pointers
    /\ bodyDisposed' = b.disposed
    /\ UNCHANGED otherThanSurface

\* The colour picker widget is disposed, and with it its body and surfaces.
WidgetDisposed ==
    /\ ~bodyDisposed
    /\ BodyBecomes(dispose(Body))

\* A pointer is pressed on a surface whose pointer-down listener is registered.
PointerDownOnSurface ==
    \E p \in Pointers, surface \in Surfaces, targetIsElement, onMarker \in BOOLEAN,
       offset \in Values :
        /\ pointers[p] = "up"
        /\ ~bodyDisposed
        /\ BodyBecomes(onPointerDown(Body, surface, p, targetIsElement, onMarker, offset))

\* A pointer is pressed somewhere else in the document.
PointerDownElsewhere ==
    \E p \in Pointers :
        /\ pointers[p] = "up"
        /\ BodyBecomes([Body EXCEPT !.pointers[p] = "elsewhere"])

\* A pointer that is down moves.
PointerMove ==
    \E p \in Pointers, offset \in Offsets :
        /\ pointers[p] # "up"
        /\ BodyBecomes(onPointerMove(Body, p, offset))

\* A pointer that is down is released.
PointerUp ==
    \E p \in Pointers :
        /\ pointers[p] # "up"
        /\ BodyBecomes(onPointerUp(Body, p))

\* The body as constructed over a model: no pointer is down, the markers
\* are where layout() put them (lines 334-343, 418-423).
InitSurface ==
    /\ bodyColor \in SurfaceColors
    /\ selection = bodyColor.s
    /\ sliders = [strip \in Strips |-> getValue(strip, bodyColor)]
    /\ boxMonitor = NoPointer
    /\ monitoring = [surface \in Surfaces |-> {}]
    /\ upListeners = [surface \in Surfaces |-> {}]
    /\ upOrder = <<>>
    /\ pointers = [p \in Pointers |-> "up"]
    /\ bodyDisposed = FALSE

NextSurface ==
    \/ PointerDownOnSurface
    \/ PointerDownElsewhere
    \/ PointerMove
    \/ PointerUp
    \/ WidgetDisposed

(***************************************************************************)
(* THE HOVER ACCESSIBLE VIEW AND THE HOVER ACCESSIBILITY HELP.             *)
(* getProvider looks up the active or else the focused code editor and     *)
(* that editor's hover controller.                                         *)
(***************************************************************************)
MaxEditors == 2
Editors == 1..MaxEditors
NoEditor == 0

\* a || b on editors: the first one that is not null.
OrElse(a, b) == IF a # NoEditor THEN a ELSE b

\* HoverController.get(codeEditor): the editor's contribution, or null.
HoverController_get(codeEditor, controllers) ==
    IF codeEditor \in controllers THEN codeEditor ELSE NoEditor

\* The view implementation: its _provider field.
AccessibleView == [_provider |-> viewProvider]

\* HoverAccessibleView.getProvider with the test for a missing editor removed.
View_getProvider_noThrow(view, active, focused, controllers) ==
    LET codeEditor == OrElse(active, focused)
        hoverController == HoverController_get(codeEditor, controllers)
    IN IF hoverController = NoEditor
       THEN [outcome |-> "undefined", view |-> view]
       ELSE [outcome |-> "HoverAccessibleViewProvider",
             view |-> [view EXCEPT !._provider = codeEditor]]

\* HoverAccessibleView.getProvider.
View_getProvider(view, active, focused, controllers) ==
    LET codeEditor == OrElse(active, focused)
        hoverController == HoverController_get(codeEditor, controllers)
    IN IF codeEditor = NoEditor
       THEN [outcome |-> "Error", view |-> view]
       ELSE IF hoverController = NoEditor
       THEN [outcome |-> "undefined", view |-> view]
       ELSE [outcome |-> "HoverAccessibleViewProvider",
             view |-> [view EXCEPT !._provider = codeEditor]]

\* HoverAccessibilityHelp.getProvider: the created provider is lastOutcome and
\* not stored.
Help_getProvider(active, focused, controllers) ==
    LET codeEditor == OrElse(active, focused)
        hoverController == HoverController_get(codeEditor, controllers)
    IN IF codeEditor = NoEditor
       THEN "Error"
       ELSE IF hoverController = NoEditor
       THEN "undefined"
       ELSE "HoverAccessibilityHelpProvider"

ActiveEditorChanges ==
    /\ activeCodeEditor' \in (Editors \cup {NoEditor}) \ {activeCodeEditor}
    /\ UNCHANGED <<focusedCodeEditor, hoverControllers, viewProvider, lastOutcome>>
    /\ UNCHANGED otherThanAccess

FocusedEditorChanges ==
    /\ focusedCodeEditor' \in (Editors \cup {NoEditor}) \ {focusedCodeEditor}
    /\ UNCHANGED <<activeCodeEditor, hoverControllers, viewProvider, lastOutcome>>
    /\ UNCHANGED otherThanAccess

ViewGetProvider ==
    LET r == View_getProvider(AccessibleView, activeCodeEditor, focusedCodeEditor,
                              hoverControllers)
    IN /\ viewProvider' = r.view._provider
       /\ lastOutcome' = r.outcome
       /\ UNCHANGED <<activeCodeEditor, focusedCodeEditor, hoverControllers>>
       /\ UNCHANGED otherThanAccess

HelpGetProvider ==
    /\ lastOutcome' = Help_getProvider(activeCodeEditor, focusedCodeEditor, hoverControllers)
    /\ UNCHANGED <<activeCodeEditor, focusedCodeEditor, hoverControllers, viewProvider>>
    /\ UNCHANGED otherThanAccess

\* The editors exist from the start, with or without a hover controller.
InitAccess ==
    /\ activeCodeEditor = NoEditor
    /\ focusedCodeEditor = NoEditor
    /\ hoverControllers \in SUBSET Editors
    /\ viewProvider = NoEditor
    /\ lastOutcome = "nothing"

NextAccess ==
    \/ ActiveEditorChanges
    \/ FocusedEditorChanges
    \/ ViewGetProvider
    \/ HelpGetProvider

(***************************************************************************)
(* THE ARITHMETIC OF THE INPUT SURFACES.                                   *)
(* A surface divides the pointer's offset by its measured width or height, *)
(* both in pixels.  A number is a fraction n/d with d > 0, an infinity or  *)
(* NaN, as the division of two doubles gives them.                         *)
(***************************************************************************)
\* The largest measured dimension, in pixels.
MaxPixels == 2
\* offsetWidth and offsetHeight of an element: 0 while it is not rendered.
Measures == 0..MaxPixels
\* Pointer offsets from the surface's origin: inside it or beyond an edge.
PixelOffsets == (0 - 1)..(MaxPixels + 1)

Finite(n, d) == [kind |-> "finite", n |-> n, d |-> d]
Infinity(sign) == [kind |-> "infinity", n |-> sign, d |-> 0]
NaN == [kind |-> "NaN", n |-> 0, d |-> 0]

\* a / b on integers held in doubles.
Divide(a, b) ==
    IF b > 0 THEN Finite(a, b)
    ELSE IF b < 0 THEN Finite(0 - a, 0 - b)
    ELSE IF a > 0 THEN Infinity(1)
    ELSE IF a < 0 THEN Infinity(0 - 1)
    ELSE NaN

\* 1 - x
OneMinus(x) ==
    CASE x.kind = "finite" -> Finite(x.d - x.n, x.d)
      [] x.kind = "infinity" -> Infinity(0 - x.n)
      [] x.kind = "NaN" -> NaN

\* Math.min(1, x): NaN if x is NaN.
Math_min1(x) ==
    CASE x.kind = "finite" -> IF x.n > x.d THEN Finite(1, 1) ELSE x
      [] x.kind = "infinity" -> IF x.n > 0 THEN Finite(1, 1) ELSE x
      [] x.kind = "NaN" -> NaN

\* Math.max(0, x): NaN if x is NaN.
Math_max0(x) ==
    CASE x.kind = "finite" -> IF x.n < 0 THEN Finite(0, 1) ELSE x
      [] x.kind = "infinity" -> IF x.n < 0 THEN Finite(0, 1) ELSE x
      [] x.kind = "NaN" -> NaN

\* SaturationBox.onDidChangePosition, lines 326-332: the event it fires.
SaturationBox_onDidChangePosition(left, top, width, height) ==
    LET s == Math_max0(Math_min1(Divide(left, width)))
        v == Math_max0(Math_min1(OneMinus(Divide(top, height))))
    IN [surface |-> "saturation", s |-> s, v |-> v]

\* Strip.onDidChangeTop, lines 452-457: the event it fires.
Strip_onDidChangeTop(top, height) ==
    LET value == Math_max0(Math_min1(OneMinus(Divide(top, height))))
    IN [surface |-> "strip", s |-> value, v |-> value]

\* SaturationBox.layout, lines 334-337, and Strip.layout, line 419: the
\* dimensions are measured anew; a strip's height is its node's less its
\* slider's.
Layout ==
    /\ boxWidth' \in Measures
    /\ boxHeight' \in Measures
    /\ \E nodeHeight \in Measures, sliderHeight \in Measures :
          stripHeight' = nodeHeight - sliderHeight
    /\ <<boxWidth', boxHeight', stripHeight'>> # <<boxWidth, boxHeight, stripHeight>>
    /\ UNCHANGED emitted
    /\ UNCHANGED otherThanMeasure

\* A pointer goes down on, or is dragged over, the saturation box.
SaturationBoxPositionChanges ==
    \E left \in PixelOffsets, top \in PixelOffsets :
        /\ emitted' = SaturationBox_onDidChangePosition(left, top, boxWidth, boxHeight)
        /\ UNCHANGED <<boxWidth, boxHeight, stripHeight>>
        /\ UNCHANGED otherThanMeasure

\* A pointer goes down on, or is dragged over, a strip.
StripTopChanges ==
    \E top \in PixelOffsets :
        /\ emitted' = Strip_onDidChangeTop(top, stripHeight)
        /\ UNCHANGED <<boxWidth, boxHeight, stripHeight>>
        /\ UNCHANGED otherThanMeasure

\* The surfaces as constructed: layout() has measured them, nothing is emitted.
InitMeasure ==
    /\ boxWidth \in Measures
    /\ boxHeight \in Measures
    /\ \E nodeHeight \in Measures, sliderHeight \in Measures :
          stripHeight = nodeHeight - sliderHeight
    /\ emitted = [surface |-> "none", s |-> Finite(0, 1), v |-> Finite(0, 1)]

NextMeasure ==
    \/ Layout
    \/ SaturationBoxPositionChanges
    \/ StripTopChanges

(***************************************************************************)
(* ------------------ THE UTILITY-PROCESS WORKER SERVICE ----------------- *)
(* UtilityProcessWorkerMainService (part_001): a map from the hash of a    *)
(* configuration (moduleId, windowId) to the worker created for it.  The   *)
(* workers are numbered in the order createWorker constructs them.         *)
(***************************************************************************)
\* The configurations (moduleId, windowId) that callers use.
MaxConfigurations == 2
\* The workers one service constructs.
MaxWorkers == 3

Configurations == 1..MaxConfigurations
NoConfiguration == 0
Workers == 1..MaxWorkers
NoWorker == 0

\* The service and its workers as one record; calls collects what a method
\* did, in order.
Service ==
    [workers |-> workers, spawned |-> spawned, config |-> workerConfig,
     process |-> process, disposed |-> workerDisposed, promise |-> promise,
     calls |-> <<>>]

Did(s, op, w) == [s EXCEPT !.calls = Append(@, [op |-> op, worker |-> w])]

\* hash(configuration), lines 75-80: the key of a configuration; two
\* configurations of the model have different keys.
hash(configuration) == configuration

\* The listener createWorker attached with Event.once(worker.onDidTerminate),
\* lines 61-70: the registration under the worker's key is deleted and the
\* promise completes with the reason.
onDidTerminate_once(s, w, reason) ==
    IF s.promise[w] # "pending" THEN s
    ELSE [Did(s, "workers.delete", w) EXCEPT
              !.workers[hash(s.config[w])] = NoWorker,
              !.promise[w] = reason]

\* The worker's listeners of utilityProcess.onExit and onCrash, lines
\* 117-118, registered with the worker and gone once it is disposed; they
\* fire _onDidTerminate, an emitter that is disposed with the worker too.
utilityProcess_onExit(s, w, reason) ==
    LET s1 == [s EXCEPT !.process[w] = "ended"]
    IN IF s.disposed[w] THEN s1 ELSE onDidTerminate_once(s1, w, reason)

\* UtilityProcessWorker.kill, lines 137-139.  Whether the utility process
\* reports its exit before kill() returns or in a later event is not
\* determined by the sources: exitInKill.
Worker_kill(s, w, exitInKill) ==
    LET s1 == Did(s, "kill", w)
    IN IF s.process[w] \notin {"running", "killed"} THEN s1
       ELSE IF exitInKill THEN utilityProcess_onExit(s1, w, "exit")
       ELSE [s1 EXCEPT !.process[w] = "killed"]

\* worker.dispose(): the emitter, the utility process and the listeners the
\* worker registered are disposed (lines 99, 102, 117-118).
Worker_dispose(s, w) == [Did(s, "dispose", w) EXCEPT !.disposed[w] = TRUE]

\* disposeWorker(configuration), lines 82-94.
disposeWorker(s, configuration, exitInKill) ==
    LET workerId == hash(configuration)
        worker == s.workers[workerId]
    IN IF worker = NoWorker THEN s
       ELSE [Did(Worker_dispose(Worker_kill(s, worker, exitInKill), worker),
                 "workers.delete", worker)
                EXCEPT !.workers[workerId] = NoWorker]

\* createWorker that does not end the worker it finds (a mutation).
createWorker_keepsExisting(s, configuration, spawnOk, exitInKill) ==
    LET workerId == hash(configuration)
        worker == s.spawned + 1
        s2 == Did([s EXCEPT !.spawned = worker, !.config[worker] = configuration],
                  "spawn", worker)
    IN IF ~spawnOk
       THEN [s2 EXCEPT !.promise[worker] = "EINVALID"]
       ELSE [Did(s2, "workers.set", worker) EXCEPT
                 !.process[worker] = "running",
                 !.workers[workerId] = worker,
                 !.promise[worker] = "pending"]

\* createWorker(configuration), lines 40-73.  spawnOk is what worker.spawn()
\* returns.
createWorker(s, configuration, spawnOk, exitInKill) ==
    LET workerId == hash(configuration)
        s1 == IF s.workers[workerId] # NoWorker
              THEN disposeWorker(s, configuration, exitInKill)
              ELSE s
        worker == s1.spawned + 1
        s2 == Did([s1 EXCEPT !.spawned = worker, !.config[worker] = configuration],
                  "spawn", worker)
    IN IF ~spawnOk
       THEN [s2 EXCEPT !.promise[worker] = "EINVALID"]
       ELSE [Did(s2, "workers.set", worker) EXCEPT
                 !.process[worker] = "running",
                 !.workers[workerId] = worker,
                 !.promise[worker] = "pending"]

ServiceBecomes(s) ==
    /\ workers' = s.workers
    /\ spawned' = s.spawned
    /\ workerConfig' = s.config
    /\ process' = s.process
    /\ workerDisposed' = s.disposed
    /\ promise' = s.promise
    /\ UNCHANGED otherThanWorker

\* A window asks for a worker.
CreateWorker ==
    /\ spawned < MaxWorkers
    /\ \E configuration \in Configurations, spawnOk \in BOOLEAN, exitInKill \in BOOLEAN :
         ServiceBecomes(createWorker(Service, configuration, spawnOk, exitInKill))

\* A window gives its worker up.
DisposeWorker ==
    \E configuration \in Configurations, exitInKill \in BOOLEAN :
        /\ workers[hash(configuration)] # NoWorker
        /\ ServiceBecomes(disposeWorker(Service, configuration, exitInKill))

\* A utility process exits, by itself or after a kill.
ProcessExits ==
    \E w \in Workers :
        /\ process[w] \in {"running", "killed"}
        /\ ServiceBecomes(utilityProcess_onExit(Service, w, "exit"))

\* A running utility process crashes.
ProcessCrashes ==
    \E w \in Workers :
        /\ process[w] = "running"
        /\ ServiceBecomes(utilityProcess_onExit(Service, w, "ECRASH"))

\* The service as constructed: no worker.
InitWorker ==
    /\ workers = [c \in Configurations |-> NoWorker]
    /\ spawned = 0
    /\ workerConfig = [w \in Workers |-> NoConfiguration]
    /\ process = [w \in Workers |-> "none"]
    /\ workerDisposed = [w \in Workers |-> FALSE]
    /\ promise = [w \in Workers |-> "none"]

NextWorker ==
    \/ CreateWorker
    \/ DisposeWorker
    \/ ProcessExits
    \/ ProcessCrashes

(***************************************************************************)
(* -------------------------- THE UPDATE SERVICE ------------------------- *)
(* AbstractUpdateService (part_002): a state, an event for its changes,    *)
(* and four operations, each handing over to a hook of the platform's      *)
(* subclass.  The subclass moves the state on with setState.               *)
(***************************************************************************)
\* The state changes one run follows.
MaxStateChanges == 3
\* The hook invocations one run records.
MaxHooks == 2
\* The lifecycle quits that can be awaiting their answer.
MaxQuits == 2

\* StateType: the types the service tests for, and the ones in between.
StateTypes ==
    {"uninitialized", "idle", "checking for updates", "available for download",
     "downloading", "downloaded", "updating", "ready"}

UpdateModes == {"none", "manual", "start", "default"}

\* The service as one record; calls collects what initialize called, in
\* order.
UpdateService ==
    [state |-> updateState, url |-> updateUrl, fired |-> stateChanges,
     hooks |-> hooks, quits |-> quits, calls |-> <<>>]

Called(u, name) == [u EXCEPT !.calls = Append(@, name)]

\* setState(state), lines 42-46.
setState(u, type) == [u EXCEPT !.state = type, !.fired = @ + 1]

\* A hook of the subclass is invoked.
Hook(u, name) == [u EXCEPT !.hooks = Append(@, name)]

\* initialize(), lines 62-107.  productQuality tells whether
\* productService.quality is set, feedUrl whether buildUpdateFeedUrl returns
\* a url.  The timers it starts call checkForUpdates later.
initialize(u, isBuilt, disableUpdates, hasUpdateUrl, updateMode, productQuality, feedUrl) ==
    IF ~isBuilt THEN u
    ELSE IF disableUpdates THEN u
    ELSE IF ~hasUpdateUrl THEN u
    ELSE LET u1 == Called(u, "getUpdateMode")
             quality == updateMode # "none" /\ productQuality
         IN IF ~quality THEN u1
            ELSE LET u2 == [Called(u1, "buildUpdateFeedUrl") EXCEPT !.url = feedUrl]
                 IN IF ~feedUrl THEN u2
                    ELSE LET u3 == setState(Called(u2, "getUpdateType"), "idle")
                         IN IF updateMode = "manual" THEN u3
                            ELSE IF updateMode = "start" THEN Called(u3, "setTimeout")
                            ELSE Called(u3, "scheduleCheckForUpdates")

\* checkForUpdates(explicit), lines 126-134.
checkForUpdates(u, explicit) ==
    IF u.state # "idle" THEN u ELSE Hook(u, "doCheckForUpdates")

\* downloadUpdate(), lines 136-144.
downloadUpdate(u) ==
    IF u.state # "available for download" THEN u ELSE Hook(u, "doDownloadUpdate")

\* applyUpdate(), lines 150-158.
applyUpdate(u) ==
    IF u.state # "downloaded" THEN u ELSE Hook(u, "doApplyUpdate")

\* quitAndInstall(), lines 164-184: in Ready the lifecycle is asked to quit.
quitAndInstall(u) ==
    IF u.state # "ready" THEN u ELSE [u EXCEPT !.quits = @ + 1]

\* The continuation of quit() that installs whatever the answer (a mutation).
quit_then_ignoresVeto(u, vetod) ==
    Hook([u EXCEPT !.quits = @ - 1], "doQuitAndInstall")

\* The continuation of lifecycleMainService.quit(), lines 173-181.
quit_then(u, vetod) ==
    LET u1 == [u EXCEPT !.quits = @ - 1]
    IN IF vetod THEN u1 ELSE Hook(u1, "doQuitAndInstall")

UpdateBecomes(u) ==
    /\ updateState' = u.state
    /\ updateUrl' = u.url
    /\ stateChanges' = u.fired
    /\ hooks' = u.hooks
    /\ quits' = u.quits
    /\ UNCHANGED otherThanUpdate

HooksLeft == Len(hooks) < MaxHooks

\* The application calls initialize, once.
Initialize ==
    /\ ~initialized
    /\ initialized' = TRUE
    /\ \E isBuilt \in BOOLEAN, disableUpdates \in BOOLEAN, hasUpdateUrl \in BOOLEAN,
          updateMode \in UpdateModes, productQuality \in BOOLEAN, feedUrl \in BOOLEAN :
         UpdateBecomes(initialize(UpdateService, isBuilt, disableUpdates,
                                  hasUpdateUrl, updateMode, productQuality, feedUrl))

\* A window or a timer of initialize asks for a check.
CheckForUpdates ==
    /\ HooksLeft
    /\ \E explicit \in BOOLEAN : UpdateBecomes(checkForUpdates(UpdateService, explicit))
    /\ UNCHANGED initialized

DownloadUpdate ==
    /\ HooksLeft
    /\ UpdateBecomes(downloadUpdate(UpdateService))
    /\ UNCHANGED initialized

ApplyUpdate ==
    /\ HooksLeft
    /\ UpdateBecomes(applyUpdate(UpdateService))
    /\ UNCHANGED initialized

QuitAndInstall ==
    /\ quits < MaxQuits
    /\ UpdateBecomes(quitAndInstall(UpdateService))
    /\ UNCHANGED initialized

\* The lifecycle answers a quit: vetoed or not.
LifecycleQuitAnswers ==
    /\ quits > 0
    /\ HooksLeft
    /\ \E vetod \in BOOLEAN : UpdateBecomes(quit_then(UpdateService, vetod))
    /\ UNCHANGED initialized

\* The subclass moves the state on (setState is protected): a check found an
\* update, a download finished, and so on.
PlatformSetsState ==
    /\ updateState # "uninitialized"
    /\ stateChanges < MaxStateChanges
    /\ \E type \in StateTypes \ {"uninitialized"} :
         UpdateBecomes(setState(UpdateService, type))
    /\ UNCHANGED initialized

\* The service as constructed, line 34.
InitUpdate ==
    /\ updateState = "uninitialized"
    /\ updateUrl = FALSE
    /\ initialized = FALSE
    /\ stateChanges = 0
    /\ hooks = <<>>
    /\ quits = 0

NextUpdate ==
    \/ Initialize
    \/ CheckForUpdates
    \/ DownloadUpdate
    \/ ApplyUpdate
    \/ QuitAndInstall
    \/ LifecycleQuitAnswers
    \/ PlatformSetsState

(***************************************************************************)
(* ------------------------- THE REFERENCES MODEL ------------------------ *)
(* ReferencesModel (hover.ts 594-748): the links a provider returned,      *)
(* sorted, grouped by file and freed of duplicates.  Within one call of    *)
(* the constructor a link is numbered by its place in the array the call   *)
(* was given, which stands for its identity; a reference is named by its   *)
(* index in ReferencesModel.references and keeps the place of its link in  *)
(* _links.                                                                 *)
(***************************************************************************)
\* The links of one answer.
MaxLinks == 3
\* The files the links point into.
MaxUris == 2
\* The places in a file, in the order of Range.compareRangesUsingStarts.
MaxPlaces == 2
\* The times a range is set on the references of one model.
MaxRangeChanges == 1

Uris == 1..MaxUris
Places == 1..MaxPlaces
\* link.targetSelectionRange absent.
NoTarget == 0
\* The targetSelectionRange of the links that have one.
TargetPlace == 1
NoReference == 0

\* The answers of a provider: every list of at most MaxLinks links, either of
\* plain locations or of location links with a targetSelectionRange.
LinkLists ==
    UNION {[1..n -> [uri : Uris, range : Places]] : n \in 0..MaxLinks}
WithTarget(list, target) ==
    [i \in 1..Len(list) |->
        [uri |-> list[i].uri, range |-> list[i].range, target |-> target]]

\* The links of an array, each with its place in the array.
Numbered(list) ==
    [i \in 1..Len(list) |->
        [id |-> i, uri |-> list[i].uri, range |-> list[i].range, target |-> list[i].target]]
Unnumbered(list) ==
    [i \in 1..Len(list) |->
        [uri |-> list[i].uri, range |-> list[i].range, target |-> list[i].target]]

\* ReferencesModel._compareReferences(a, b), lines 745-747; a and b are
\* links or references: anything with a uri and a range.
_compareReferences(a, b) ==
    IF a.uri # b.uri THEN a.uri - b.uri ELSE a.range - b.range

\* Array.prototype.sort with _compareReferences: a stable sort.
RECURSIVE InsertSorted(_, _)
InsertSorted(sorted, link) ==
    IF sorted = <<>> THEN <<link>>
    ELSE IF _compareReferences(sorted[Len(sorted)], link) <= 0 THEN Append(sorted, link)
    ELSE Append(InsertSorted(SubSeq(sorted, 1, Len(sorted) - 1), link), sorted[Len(sorted)])

RECURSIVE sort(_)
sort(list) ==
    IF list = <<>> THEN <<>>
    ELSE InsertSorted(sort(SubSeq(list, 1, Len(list) - 1)), list[Len(list)])

\* One turn of the constructor's loop, lines 615-635, for the link at
\* place n of the sorted array.
AddLink(m, link, n, providersFirst) ==
    LET newGroup == m.groups = <<>> \/ m.files[m.groups[Len(m.groups)]].uri # link.uri
        fs == IF newGroup
              THEN Append(m.files, [uri |-> link.uri, children |-> <<>>])
              ELSE m.files
        gs == IF newGroup THEN Append(m.groups, Len(fs)) ELSE m.groups
        f == gs[Len(gs)]
        children == fs[f].children
        oneRef == [isProviderFirst |-> providersFirst = link.id, parent |-> f,
                   uri |-> link.uri,
                   range |-> IF link.target # NoTarget THEN link.target ELSE link.range,
                   link |-> n]
    IN IF children = <<>>
          \/ _compareReferences(link, m.references[children[Len(children)]]) # 0
       THEN [m EXCEPT !.files = [fs EXCEPT ![f].children = Append(@, Len(m.references) + 1)],
                      !.groups = gs,
                      !.references = Append(@, oneRef)]
       ELSE [m EXCEPT !.files = fs, !.groups = gs]

RECURSIVE AddLinks(_, _, _, _)
AddLinks(m, sorted, n, providersFirst) ==
    IF n = 0 THEN m
    ELSE AddLink(AddLinks(m, sorted, n - 1, providersFirst), sorted[n], n, providersFirst)

\* new ReferencesModel(links, title), lines 606-636: providersFirst is the
\* link at the head of the array as given; the array is then sorted in
\* place and kept as _links.
ReferencesModel(list) ==
    LET numbered == Numbered(list)
        providersFirst == IF list = <<>> THEN NoReference ELSE numbered[1].id
        sorted == sort(numbered)
        m == [links |-> Unnumbered(sorted), files |-> <<>>, groups |-> <<>>,
              references |-> <<>>, fired |-> <<>>]
    IN AddLinks(m, sorted, Len(list), providersFirst)

\* The model at hand.
Model ==
    [links |-> links, files |-> files, groups |-> groups,
     references |-> references, fired |-> fired]

\* dispose(), lines 638-643: the array of groups is emptied; the
\* FileReferences and the references stay as they are.
ReferencesModel_dispose(m) == [m EXCEPT !.groups = <<>>]

\* The setter of OneReference.range, lines 500-503, with the callback the
\* constructor gave the reference (line 629).
OneReference_range(m, reference, value) ==
    [m EXCEPT !.references[reference].range = value,
              !.fired = Append(@, reference)]

\* isEmpty, lines 653-655.
isEmpty(m) == Len(m.groups) = 0

\* clone(), lines 645-647.
clone(m) == ReferencesModel(m.links)

\* firstReference(), lines 736-743.
firstReference(m) ==
    LET first == {r \in 1..Len(m.references) : m.references[r].isProviderFirst}
    IN IF first # {} THEN CHOOSE r \in first : \A q \in first : r <= q
       ELSE IF m.references = <<>> THEN NoReference ELSE 1

\* children.indexOf(reference) and groups.indexOf(parent), counted from 0.
IndexOf(seq, x) ==
    IF \E i \in 1..Len(seq) : seq[i] = x
    THEN (CHOOSE i \in 1..Len(seq) : seq[i] = x) - 1
    ELSE 0 - 1

\* The TypeError of reading children of undefined.
TypeError == 0 - 1

\* nextOrPreviousReference that enters the previous file at its first
\* reference (a mutation).
nextOrPreviousReference_entersAtFirst(m, reference, next) ==
    LET parent == m.references[reference].parent
        children == m.files[parent].children
        idx == IndexOf(children, reference)
        childCount == Len(children)
        groupCount == Len(m.groups)
    IN IF groupCount = 1 \/ (next /\ idx + 1 < childCount) \/ (~next /\ idx > 0)
       THEN IF next THEN children[((idx + 1) % childCount) + 1]
            ELSE children[((idx + childCount - 1) % childCount) + 1]
       ELSE IF groupCount = 0 THEN TypeError
       ELSE LET gidx == IndexOf(m.groups, parent)
            IN IF next
               THEN m.files[m.groups[((gidx + 1) % groupCount) + 1]].children[1]
               ELSE m.files[m.groups[((gidx + groupCount - 1) % groupCount) + 1]].children[1]

\* nextOrPreviousReference(reference, next), lines 669-695.  With no group
\* left, idx % groupCount is NaN and groups[NaN] is undefined.
nextOrPreviousReference(m, reference, next) ==
    LET parent == m.references[reference].parent
        children == m.files[parent].children
        idx == IndexOf(children, reference)
        childCount == Len(children)
        groupCount == Len(m.groups)
    IN IF groupCount = 1 \/ (next /\ idx + 1 < childCount) \/ (~next /\ idx > 0)
       THEN IF next THEN children[((idx + 1) % childCount) + 1]
            ELSE children[((idx + childCount - 1) % childCount) + 1]
       ELSE IF groupCount = 0 THEN TypeError
       ELSE LET gidx == IndexOf(m.groups, parent)
            IN IF next
               THEN m.files[m.groups[((gidx + 1) % groupCount) + 1]].children[1]
               ELSE LET last == m.files[m.groups[((gidx + groupCount - 1) % groupCount) + 1]].children
                    IN last[Len(last)]

ModelBecomes(m) ==
    /\ links' = m.links
    /\ files' = m.files
    /\ groups' = m.groups
    /\ references' = m.references
    /\ fired' = m.fired

\* The model is replaced by its clone.
Clone ==
    /\ ModelBecomes(clone(Model))
    /\ current' = NoReference
    /\ UNCHANGED otherThanRef

\* The peek widget goes to the first reference.
GoToFirstReference ==
    /\ current' = firstReference(Model)
    /\ UNCHANGED <<links, files, groups, references, fired, otherThanRef>>

\* A step that throws leaves the widget where it is.
GoToNextReference ==
    /\ current # NoReference
    /\ LET reference == nextOrPreviousReference(Model, current, TRUE)
       IN current' = IF reference = TypeError THEN current ELSE reference
    /\ UNCHANGED <<links, files, groups, references, fired, otherThanRef>>

GoToPreviousReference ==
    /\ current # NoReference
    /\ LET reference == nextOrPreviousReference(Model, current, FALSE)
       IN current' = IF reference = TypeError THEN current ELSE reference
    /\ UNCHANGED <<links, files, groups, references, fired, otherThanRef>>

\* The model is disposed.
Dispose ==
    /\ ModelBecomes(ReferencesModel_dispose(Model))
    /\ UNCHANGED <<current, otherThanRef>>

\* The range of a reference is set, as when its decoration has moved: to
\* the place after the one it had, the first place after the last.
SetRange ==
    /\ Len(fired) < MaxRangeChanges
    /\ \E reference \in 1..Len(references) :
          LET value == (references[reference].range % MaxPlaces) + 1
          IN ModelBecomes(OneReference_range(Model, reference, value))
    /\ UNCHANGED <<current, otherThanRef>>

\* The model constructed from the list of links a provider answered with.
InitRef ==
    /\ \E list \in LinkLists, target \in {NoTarget, TargetPlace} :
          LET m == ReferencesModel(WithTarget(list, target))
          IN /\ links = m.links
             /\ files = m.files
             /\ groups = m.groups
             /\ references = m.references
             /\ fired = m.fired
    /\ current = NoReference

NextRef ==
    \/ Clone
    \/ GoToFirstReference
    \/ GoToNextReference
    \/ GoToPreviousReference
    \/ Dispose
    \/ SetRange

(***************************************************************************)
(* --------------------- ACCESSIBLE-VIEW PROVIDERS ----------------------- *)
(* BaseHoverAccessibleViewProvider (part_003 86-124): the hover view       *)
(* providers and the hover help providers that getProvider creates for one *)
(* hover controller.  The accessible view calls onOpen when it shows a     *)
(* provider and onClose when it hides it.                                  *)
(***************************************************************************)
\* The markdown hovers of the content hover, counted from 0.
MaxMarkdownHovers == 2

ViewProviders == {"HoverAccessibleViewProvider", "HoverAccessibilityHelpProvider"}
\* focusedMarkdownHoverIndex() with no markdown hover focused, and the
\* initial _markdownHoverFocusedIndex.
MarkdownIndices == (0 - 1)..(MaxMarkdownHovers - 1)

\* The listeners one provider registers on the controller.
MaxListeners == 2
\* The providers created for the controller.
MaxProviders == 3

\* A provider as createInstance constructs it (lines 92-93): index is its
\* _markdownHoverFocusedIndex, listening whether the listener its field
\* _onHoverContentsChanged holds is registered, listeners how many listeners
\* it has on onHoverContentsChanged, disposed whether its dispose() has run.
\* held: it is the _provider of HoverAccessibleView.  opened: onOpen was
\* called on it and onClose not yet.
NewProvider(kind) ==
    [kind |-> kind, held |-> FALSE, opened |-> FALSE, index |-> 0 - 1,
     listening |-> FALSE, listeners |-> 0, disposed |-> FALSE]

\* The controller and the providers created for it as one record.
Providers ==
    [keepOpen |-> shouldKeepOpenOnEditorMouseMoveOrLeave,
     focusedIndex |-> focusedMarkdownHoverIndex,
     focused |-> controllerFocused,
     created |-> createdProviders]

\* HoverAccessibleView.getProvider with a hover controller, lines 39-51: a
\* new provider is created and replaces the one _provider held.
HoverAccessibleView_getProvider(s) ==
    LET before == [i \in 1..Len(s.created) |-> [s.created[i] EXCEPT !.held = FALSE]]
        provider == [NewProvider("HoverAccessibleViewProvider") EXCEPT !.held = TRUE]
    IN [s EXCEPT !.created = Append(before, provider)]

\* HoverAccessibilityHelp.getProvider with a hover controller, lines 67-78:
\* a new provider is created; _provider is not assigned.
HoverAccessibilityHelp_getProvider(s) ==
    [s EXCEPT !.created = Append(@, NewProvider("HoverAccessibilityHelpProvider"))]

\* onOpen(), lines 104-113: a listener is registered whether or not the
\* field holds one already.
onOpen(s, i) ==
    [s EXCEPT !.keepOpen = TRUE,
              !.created[i].index = s.focusedIndex,
              !.created[i].listening = TRUE,
              !.created[i].listeners = @ + 1]

\* onClose(), lines 115-123: the listener the field holds is disposed.
onClose(s, i) ==
    [s EXCEPT !.created[i].index = 0 - 1,
              !.focused = TRUE,
              !.keepOpen = FALSE,
              !.created[i].listening = FALSE,
              !.created[i].listeners = IF s.created[i].listening THEN @ - 1 ELSE @]

\* dispose() of a provider: what the provider registered is disposed, the
\* listeners of line 110 among them.  A listener registered after that is
\* not held by the provider, and a later dispose() does nothing.
Provider_dispose(s, i) ==
    IF s.created[i].disposed THEN s
    ELSE [s EXCEPT !.created[i].listening = FALSE,
                   !.created[i].listeners = 0,
                   !.created[i].disposed = TRUE]

\* HoverAccessibleView.dispose, lines 53-55: this._provider?.dispose().
\* (HoverAccessibilityHelp.dispose, lines 80-82, finds its _provider
\* undefined.)
HoverAccessibleView_dispose(s) ==
    LET held == {i \in 1..Len(s.created) : s.created[i].held}
    IN IF held = {} THEN s
       ELSE Provider_dispose(s, CHOOSE i \in held : TRUE)

\* The providers have no order among them: they are kept sorted by this
\* key, so that one collection of providers is one value.
ProviderKey(r) ==
    ((((((IF r.kind = "HoverAccessibleViewProvider" THEN 0 ELSE 1) * 2
         + (IF r.held THEN 1 ELSE 0)) * 2
        + (IF r.opened THEN 1 ELSE 0)) * (MaxMarkdownHovers + 1)
       + (r.index + 1)) * 2
      + (IF r.listening THEN 1 ELSE 0)) * (MaxListeners + 1)
     + r.listeners) * 2
    + (IF r.disposed THEN 1 ELSE 0)

InsertProvider(seq, r) ==
    LET n == Cardinality({ i \in 1..Len(seq) : ProviderKey(seq[i]) <= ProviderKey(r) })
    IN SubSeq(seq, 1, n) \o <<r>> \o SubSeq(seq, n + 1, Len(seq))

RECURSIVE SortProviders(_)
SortProviders(seq) ==
    IF seq = <<>> THEN <<>>
    ELSE InsertProvider(SortProviders(Tail(seq)), Head(seq))

ProvidersBecome(s) ==
    /\ shouldKeepOpenOnEditorMouseMoveOrLeave' = s.keepOpen
    /\ focusedMarkdownHoverIndex' = s.focusedIndex
    /\ controllerFocused' = s.focused
    /\ createdProviders' = SortProviders(s.created)
    /\ UNCHANGED otherThanProvider

\* The accessible view asks the hover view for its provider.
ViewProviderCreated ==
    /\ Len(createdProviders) < MaxProviders
    /\ ProvidersBecome(HoverAccessibleView_getProvider(Providers))

\* The accessible view asks the hover help for its provider.
HelpProviderCreated ==
    /\ Len(createdProviders) < MaxProviders
    /\ ProvidersBecome(HoverAccessibilityHelp_getProvider(Providers))

\* The accessible view shows a provider.
ProviderOpens ==
    \E i \in 1..Len(createdProviders) :
        /\ createdProviders[i].listeners < MaxListeners
        /\ ProvidersBecome([onOpen(Providers, i) EXCEPT !.created[i].opened = TRUE])

\* The accessible view hides a provider it showed.
ProviderCloses ==
    \E i \in 1..Len(createdProviders) :
        /\ createdProviders[i].opened
        /\ ProvidersBecome([onClose(Providers, i) EXCEPT !.created[i].opened = FALSE])

\* The hover view is disposed and disposes the provider it holds.
ProviderDisposed ==
    ProvidersBecome(HoverAccessibleView_dispose(Providers))

\* The focus moves among the markdown hovers or away from the hover.
MarkdownFocusMoves ==
    /\ focusedMarkdownHoverIndex' \in MarkdownIndices \ {focusedMarkdownHoverIndex}
    /\ controllerFocused' = FALSE
    /\ UNCHANGED <<shouldKeepOpenOnEditorMouseMoveOrLeave, createdProviders>>
    /\ UNCHANGED otherThanProvider

\* A controller for which no provider has been created yet.
InitProvider ==
    /\ shouldKeepOpenOnEditorMouseMoveOrLeave = FALSE
    /\ focusedMarkdownHoverIndex \in MarkdownIndices
    /\ controllerFocused = FALSE
    /\ createdProviders = <<>>

NextProvider ==
    \/ ViewProviderCreated
    \/ HelpProviderCreated
    \/ ProviderOpens
    \/ ProviderCloses
    \/ ProviderDisposed
    \/ MarkdownFocusMoves

(***************************************************************************)
(* The specifications: each part runs on its own, the variables of the     *)
(* other parts stay as constructed.                                        *)
(***************************************************************************)
vars == <<ctlVars, pickerVars, asyncVars, surfaceVars, accessVars,
          measureVars, workerVars, updateVars, refVars, providerVars>>

\* The controller before any event.
CtlAtRest ==
    /\ _isMouseDown = FALSE
    /\ _hoverClicked = FALSE
    /\ _isHoverEnabled = TRUE
    /\ _isHoverSticky = FALSE
    /\ _isCurrentSticky = FALSE
    /\ _contentWidget = NullContentWidget
    /\ _glyphWidget = NullGlyphWidget
    /\ blurHooked = FALSE
    /\ controllerDisposed = FALSE

\* No picker yet.
PickerAtRest ==
    /\ colorModel = ColorPickerModel(1, <<>>, 0)
    /\ editorUpdatedByColorPicker = FALSE
    /\ pickerRange = RangeOf(RawPresentation(1))
    /\ listening = FALSE
    /\ hoverVisible = FALSE
    /\ editorFocused = TRUE
    /\ text = RawPresentation(1)
    /\ fetches = <<>>
    /\ pickerType = "hover"
    /\ _color = NoColor

\* No computation yet.
AsyncAtRest ==
    /\ editorHasModel = TRUE
    /\ hasColorDetector = TRUE
    /\ lineDecorations = <<>>
    /\ token = FALSE
    /\ computeStage = "notStarted"
    /\ awaitedColor = 0
    /\ createdHover = <<>>
    /\ yielded = <<>>
    /\ cancelledAtYield = FALSE
    /\ _colorPicker = "undefined"

\* No picker body yet.
SurfaceAtRest ==
    /\ bodyColor = HSVA(0, 0, 0)
    /\ selection = 0
    /\ sliders = [strip \in Strips |-> 0]
    /\ boxMonitor = NoPointer
    /\ monitoring = [surface \in Surfaces |-> {}]
    /\ upListeners = [surface \in Surfaces |-> {}]
    /\ upOrder = <<>>
    /\ pointers = [p \in Pointers |-> "up"]
    /\ bodyDisposed = FALSE

\* No accessible view yet.
AccessAtRest ==
    /\ activeCodeEditor = NoEditor
    /\ focusedCodeEditor = NoEditor
    /\ hoverControllers = {}
    /\ viewProvider = NoEditor
    /\ lastOutcome = "nothing"

\* No surface measured yet.
MeasureAtRest ==
    /\ boxWidth = 0
    /\ boxHeight = 0
    /\ stripHeight = 0
    /\ emitted = [surface |-> "none", s |-> Finite(0, 1), v |-> Finite(0, 1)]

\* No worker service yet.
WorkerAtRest ==
    /\ workers = [c \in Configurations |-> NoWorker]
    /\ spawned = 0
    /\ workerConfig = [w \in Workers |-> NoConfiguration]
    /\ process = [w \in Workers |-> "none"]
    /\ workerDisposed = [w \in Workers |-> FALSE]
    /\ promise = [w \in Workers |-> "none"]

\* No update service yet.
UpdateAtRest ==
    /\ updateState = "uninitialized"
    /\ updateUrl = FALSE
    /\ initialized = FALSE
    /\ stateChanges = 0
    /\ hooks = <<>>
    /\ quits = 0

\* No references model yet.
RefAtRest ==
    /\ links = <<>>
    /\ files = <<>>
    /\ groups = <<>>
    /\ references = <<>>
    /\ fired = <<>>
    /\ current = NoReference

\* No accessible-view provider yet.
ProviderAtRest ==
    /\ shouldKeepOpenOnEditorMouseMoveOrLeave = FALSE
    /\ focusedMarkdownHoverIndex = 0 - 1
    /\ controllerFocused = FALSE
    /\ createdProviders = <<>>

\* The controller as constructed, with no picker and no computation.
Init ==
    InitCtl /\ PickerAtRest /\ AsyncAtRest /\ SurfaceAtRest /\ AccessAtRest /\ MeasureAtRest
    /\ WorkerAtRest
    /\ UpdateAtRest
    /\ RefAtRest
    /\ ProviderAtRest

SpecCtl == Init /\ [][NextCtl]_vars

\* A picker just rendered, beside a controller and a participant at rest.
PickerInit ==
    InitPicker /\ CtlAtRest /\ AsyncAtRest /\ SurfaceAtRest /\ AccessAtRest /\ MeasureAtRest
    /\ WorkerAtRest
    /\ UpdateAtRest
    /\ RefAtRest
    /\ ProviderAtRest

SpecPicker == PickerInit /\ [][NextPicker]_vars

\* A computation about to start, beside a controller and a picker at rest.
AsyncInit ==
    InitAsync /\ CtlAtRest /\ PickerAtRest /\ SurfaceAtRest /\ AccessAtRest /\ MeasureAtRest
    /\ WorkerAtRest
    /\ UpdateAtRest
    /\ RefAtRest
    /\ ProviderAtRest

SpecAsync == AsyncInit /\ [][NextAsync]_vars

\* A standalone picker just constructed, beside the other parts at rest.
StandaloneInit ==
    InitStandalone /\ CtlAtRest /\ AsyncAtRest /\ SurfaceAtRest /\ AccessAtRest
    /\ MeasureAtRest
    /\ WorkerAtRest
    /\ UpdateAtRest
    /\ RefAtRest
    /\ ProviderAtRest

SpecStandalone == StandaloneInit /\ [][NextStandalone]_vars

\* A picker body just constructed, beside the other parts at rest.
SurfaceInit ==
    InitSurface /\ CtlAtRest /\ PickerAtRest /\ AsyncAtRest /\ AccessAtRest /\ MeasureAtRest
    /\ WorkerAtRest
    /\ UpdateAtRest
    /\ RefAtRest
    /\ ProviderAtRest

SpecSurface == SurfaceInit /\ [][NextSurface]_vars

\* The accessible view implementations, beside the other parts at rest.
AccessInit ==
    InitAccess /\ CtlAtRest /\ PickerAtRest /\ AsyncAtRest /\ SurfaceAtRest /\ MeasureAtRest
    /\ WorkerAtRest
    /\ UpdateAtRest
    /\ RefAtRest
    /\ ProviderAtRest

SpecAccess == AccessInit /\ [][NextAccess]_vars

\* The surfaces just measured, beside the other parts at rest.
MeasureInit ==
    InitMeasure /\ CtlAtRest /\ PickerAtRest /\ AsyncAtRest /\ SurfaceAtRest /\ AccessAtRest
    /\ WorkerAtRest
    /\ UpdateAtRest
    /\ RefAtRest
    /\ ProviderAtRest

SpecMeasure == MeasureInit /\ [][NextMeasure]_vars

\* The worker service as constructed, beside the other parts at rest.
WorkerInit ==
    InitWorker /\ CtlAtRest /\ PickerAtRest /\ AsyncAtRest /\ SurfaceAtRest
    /\ AccessAtRest /\ MeasureAtRest
    /\ UpdateAtRest
    /\ RefAtRest
    /\ ProviderAtRest

SpecWorker == WorkerInit /\ [][NextWorker]_vars

\* The update service as constructed, beside the other parts at rest.
UpdateInit ==
    InitUpdate /\ CtlAtRest /\ PickerAtRest /\ AsyncAtRest /\ SurfaceAtRest
    /\ AccessAtRest /\ MeasureAtRest /\ WorkerAtRest
    /\ RefAtRest
    /\ ProviderAtRest

SpecUpdate == UpdateInit /\ [][NextUpdate]_vars

\* A provider's answer with no model yet, beside the other parts at rest.
RefInit ==
    InitRef /\ CtlAtRest /\ PickerAtRest /\ AsyncAtRest /\ SurfaceAtRest
    /\ AccessAtRest /\ MeasureAtRest /\ WorkerAtRest /\ UpdateAtRest
    /\ ProviderAtRest

SpecRef == RefInit /\ [][NextRef]_vars

\* A hover controller and its two providers as constructed, beside the other parts at rest.
ProviderInit ==
    InitProvider /\ CtlAtRest /\ PickerAtRest /\ AsyncAtRest /\ SurfaceAtRest
    /\ AccessAtRest /\ MeasureAtRest /\ WorkerAtRest /\ UpdateAtRest /\ RefAtRest

SpecProvider == ProviderInit /\ [][NextProvider]_vars

(***************************************************************************)
(* Properties of the hover controller.  A property of a handler is stated  *)
(* for the state the controller is in (any reachable state) and every      *)
(* input of the handler: the handler's result is what the matching action  *)
(* above makes the next state.                                             *)
(***************************************************************************)
\* Neither hover is showing or being started.
Hidden(s) ==
    /\ s.contentWidget.exists => s.contentWidget.state = "hidden"
    /\ s.glyphWidget.exists => s.glyphWidget.state = "hidden"

\* The content hover is showing or being started.
ContentActive(s) == s.contentWidget.exists /\ s.contentWidget.state # "hidden"

\* The glyph hover is showing or being started.
GlyphActive(s) == s.glyphWidget.exists /\ s.glyphWidget.state # "hidden"

\* The mouse is down after a mouse-down on the content hover widget and the
\* colour picker is visible.
Protected(s) == s.isMouseDown /\ s.hoverClicked /\ isColorPickerVisible(s)

\* The handler asked the content widget to start showing with these arguments.
RequestsShow(s, range, mode, focus) ==
    \E i \in 1..Len(s.calls) :
        /\ s.calls[i].op = "content.startShowingAt"
        /\ s.calls[i].range = range
        /\ s.calls[i].mode = mode
        /\ s.calls[i].focus = focus

\* The handler asked a widget to start showing.
RequestsAnyShow(s) ==
    \E i \in 1..Len(s.calls) :
        s.calls[i].op \in {"content.startShowingAt", "glyph.startShowingAt"}

\* A target that is neither the content hover widget nor the glyph hover widget.
Elsewhere(target) ==
    /\ ~(target.type = "CONTENT_WIDGET" /\ target.detail = ContentHoverID)
    /\ ~(target.type = "OVERLAY_WIDGET" /\ target.detail = GlyphHoverID)

\* C3: while the mouse is down after a mouse-down on the content hover widget
\* and the colour picker is visible, a mouse move, a mouse leave, a key down,
\* a scroll, a model change and a widget blur change nothing (they hide no
\* hover and keep the sticky and hover-clicked flags); the mouse-up ends the
\* protection, and after it the hiding events hide again.
C3_DragProtection ==
    Protected(This) =>
        /\ \A target \in TargetsAt(This), sel \in BOOLEAN :
              _onEditorMouseMove(This, target, sel) = This
        /\ onMouseLeave(This) = This
        /\ \A key \in Keys : _onKeyDown(This, key) = This
        /\ \A top \in BOOLEAN, left \in BOOLEAN :
              _onEditorScrollChanged(This, top, left) = This
        /\ onDidChangeModel(This) = This
        /\ _onWidgetBlur(This) = This
        /\ LET up == [_onEditorMouseUp(This) EXCEPT !.calls = <<>>] IN
              /\ ~Protected(up)
              /\ Hidden(_onEditorScrollChanged(up, TRUE, FALSE))
              /\ Hidden(_onKeyDown(up, "Escape"))
              /\ Hidden(_onWidgetBlur(up)) \/ ~up.isCurrentSticky
              /\ Hidden(onMouseLeave(up)) \/ up.isCurrentSticky \/ isResizing(up)
              /\ ~_onEditorScrollChanged(up, TRUE, FALSE).isCurrentSticky
              /\ ~_onEditorScrollChanged(up, TRUE, FALSE).hoverClicked

\* C3's case: a sticky hover with a visible colour picker, the mouse down on
\* it; a scroll changes nothing, and hides once the mouse is up.
C3_Witness ==
    /\ Protected(This) /\ _isCurrentSticky /\ ContentActive(This)
    /\ _onEditorScrollChanged(This, TRUE, FALSE) = This
    /\ Hidden(_onEditorScrollChanged(_onEditorMouseUp(This), TRUE, FALSE))

\* C4: the content hover and the glyph hover are never both showing or being
\* started.
C4_AtMostOneHover == ~(ContentActive(This) /\ GlyphActive(This))

\* C5 as stated: a scroll whose scrollTop or scrollLeft changed hides both
\* hovers and clears the sticky flag in every state; a scroll in which
\* neither changed changes nothing.
C5_ScrollAlwaysHides ==
    \A top \in BOOLEAN, left \in BOOLEAN :
        LET r == _onEditorScrollChanged(This, top, left) IN
        /\ (top \/ left) => Hidden(r) /\ ~r.isCurrentSticky
        /\ (~top /\ ~left) => r = This

\* C5 as amended: a scroll whose scrollTop or scrollLeft changed hides both
\* hovers and clears the sticky and hover-clicked flags, sticky or not,
\* unless the mouse is down after a mouse-down on the content hover and the
\* colour picker is visible, in which case it changes nothing; a scroll in
\* which neither changed changes nothing.
C5_ScrollHidesUnlessProtected ==
    \A top \in BOOLEAN, left \in BOOLEAN :
        LET r == _onEditorScrollChanged(This, top, left) IN
        /\ (top \/ left) /\ ~Protected(This) =>
              Hidden(r) /\ ~r.isCurrentSticky /\ ~r.hoverClicked
        /\ (top \/ left) /\ Protected(This) => r = This
        /\ (~top /\ ~left) => r = This

\* C5's case: a sticky content hover is showing and a scroll hides it.
C5_Witness ==
    /\ _isCurrentSticky /\ ContentActive(This) /\ ~Protected(This)
    /\ Hidden(_onEditorScrollChanged(This, FALSE, TRUE))
    /\ ~_onEditorScrollChanged(This, FALSE, TRUE).isCurrentSticky

\* C6: a change of the editor's model hides both hovers, sticky or not.
C6_ModelChangeAlwaysHides == Hidden(onDidChangeModel(This))

\* C7 as stated: a non-modifier key hides both hovers when the hover is not
\* sticky; when it is sticky Escape hides and every other key changes
\* nothing; a modifier key changes nothing.
C7_KeyDownAsStated ==
    \A key \in Keys :
        LET r == _onKeyDown(This, key) IN
        /\ (~_isCurrentSticky /\ key # "Modifier") => Hidden(r)
        /\ (_isCurrentSticky /\ key = "Escape") => Hidden(r)
        /\ (_isCurrentSticky /\ key # "Escape") => r = This
        /\ key = "Modifier" => r = This

\* C7 as amended: the same, except that while the mouse is down after a
\* mouse-down on the content hover and the colour picker is visible no key
\* hides anything.
C7_KeyDownUnlessProtected ==
    \A key \in Keys :
        LET r == _onKeyDown(This, key) IN
        /\ (~Protected(This) /\ ~_isCurrentSticky /\ key # "Modifier") =>
               Hidden(r) /\ ~r.hoverClicked
        /\ (~Protected(This) /\ _isCurrentSticky /\ key = "Escape") =>
               Hidden(r) /\ ~r.isCurrentSticky
        /\ (_isCurrentSticky /\ key # "Escape") => r = This
        /\ key = "Modifier" => r = This
        /\ Protected(This) => r = This

\* C7's case: a sticky content hover is showing; Escape hides it and another
\* key does not.
C7_Witness ==
    /\ _isCurrentSticky /\ ContentActive(This) /\ ~Protected(This)
    /\ Hidden(_onKeyDown(This, "Escape"))
    /\ _onKeyDown(This, "Other") = This

\* C8 as stated: a mouse leave hides both hovers unless the hover is sticky
\* or the content widget is being resized, and then it changes nothing.
C8_MouseLeaveAsStated ==
    LET r == onMouseLeave(This) IN
    /\ (~_isCurrentSticky /\ ~isResizing(This)) => Hidden(r)
    /\ (_isCurrentSticky \/ isResizing(This)) => r = This

\* C8 as amended: the same, except that while the mouse is down after a
\* mouse-down on the content hover and the colour picker is visible the
\* mouse leave changes nothing.
C8_MouseLeaveUnlessProtected ==
    LET r == onMouseLeave(This) IN
    /\ (~Protected(This) /\ ~_isCurrentSticky /\ ~isResizing(This)) =>
           Hidden(r) /\ ~r.hoverClicked
    /\ (_isCurrentSticky \/ isResizing(This) \/ Protected(This)) => r = This

\* C8's case: a content hover that is not sticky and not being resized is
\* showing, and the mouse leave hides it.
C8_Witness ==
    /\ ~_isCurrentSticky /\ ~isResizing(This) /\ ~Protected(This)
    /\ ContentActive(This) /\ _contentWidget.state = "visible"
    /\ Hidden(onMouseLeave(This))

\* C9: while the current hover is sticky, a mouse-down on a target that is
\* neither the content hover widget nor the glyph hover widget does not hide
\* the content hover.
C9_StickySurvivesClickElsewhere ==
    \A target \in TargetsAt(This) :
        (_isHoverEnabled /\ _isCurrentSticky /\ ContentActive(This) /\ Elsewhere(target))
            => ContentActive(_onEditorMouseDown(This, target))

\* C10 as stated: a mouse move over content text that has a range, with hover
\* enabled, hides the glyph hover and requests a Delayed, unfocused show of
\* the content hover at that range; when the current hover is sticky, or the
\* mouse is held down after a click on the hover, the move requests no show
\* and changes nothing; with hover disabled no mouse move requests a show.
C10_MouseMoveAsStated ==
    \A target \in TargetsAt(This), sel \in BOOLEAN :
        LET r == _onEditorMouseMove(This, target, sel) IN
        /\ ( /\ target.type = "CONTENT_TEXT" /\ target.range # NoRange
             /\ _isHoverEnabled
             /\ ~_isCurrentSticky /\ ~(_isMouseDown /\ _hoverClicked) )
              => ~GlyphActive(r) /\ RequestsShow(r, target.range, "Delayed", FALSE)
        /\ (_isCurrentSticky \/ (_isMouseDown /\ _hoverClicked))
              => ~RequestsAnyShow(r) /\ r = This
        /\ ~_isHoverEnabled => ~RequestsAnyShow(r)

\* C10 as amended: a mouse move over content text that has a range, with hover
\* enabled, while the content widget is not being resized and, when the
\* hover.sticky option is on, the selection is collapsed, hides the glyph
\* hover and requests a Delayed, unfocused show of the content hover at that
\* range, or at that range shifted one column to the right when the target is
\* a colour decorator box one column wide; when the current hover is sticky,
\* or the mouse is held down after a click on the hover, or the content widget
\* is being resized, or the hover.sticky option is on and the selection is
\* not collapsed, the move requests no show and changes nothing; with hover
\* disabled no mouse move requests a show.
C10_MouseMoveShowsAtShiftedRange ==
    \A target \in TargetsAt(This), sel \in BOOLEAN :
        LET r == _onEditorMouseMove(This, target, sel)
            decorator == target.colorBox /\ target.range[4] - target.range[2] = 1
            shifted == <<target.range[1], target.range[2] + 1,
                         target.range[3], target.range[4] + 1>>
            suppressed == \/ _isCurrentSticky
                          \/ _isMouseDown /\ _hoverClicked
                          \/ isResizing(This)
                          \/ _isHoverSticky /\ ~sel
        IN
        /\ ( /\ target.type = "CONTENT_TEXT" /\ target.range # NoRange
             /\ _isHoverEnabled /\ ~suppressed )
              => /\ ~GlyphActive(r)
                 /\ RequestsShow(r, IF decorator THEN shifted ELSE target.range,
                                 "Delayed", FALSE)
                 /\ decorator => ~RequestsShow(r, target.range, "Delayed", FALSE)
        /\ suppressed => ~RequestsAnyShow(r) /\ r = This
        /\ ~_isHoverEnabled => ~RequestsAnyShow(r)

\* C10's case: hover enabled, nothing sticky, the glyph hover showing; a move
\* over a colour decorator box one column wide hides the glyph hover and
\* requests a Delayed, unfocused show one column to the right of the target.
C10_Witness ==
    /\ _isHoverEnabled /\ ~_isCurrentSticky /\ ~_isHoverSticky
    /\ ~(_isMouseDown /\ _hoverClicked) /\ ~isResizing(This)
    /\ GlyphActive(This)
    /\ \E target \in TargetsAt(This) :
          /\ target.type = "CONTENT_TEXT" /\ target.colorBox
          /\ target.range = <<1, 1, 1, 2>>
          /\ LET r == _onEditorMouseMove(This, target, TRUE) IN
                /\ ~GlyphActive(r)
                /\ RequestsShow(r, <<1, 2, 1, 3>>, "Delayed", FALSE)
                /\ ContentActive(r)

(***************************************************************************)
(* Properties of the hover colour picker and of the colour participant.    *)
(***************************************************************************)
\* The operations a handler performed on the editor, in order.
Ops(p) == [i \in 1..Len(p.calls) |-> p.calls[i].op]

\* C1: in every state the interleavings of colour changes, flushes, provider
\* answers and buffer edits lead to, while the picker is listening: the
\* content change caused by the picker's own edit (a resuming flush) leaves
\* the hover on screen as it was, the picker listening and the focus where
\* it was, and the flag is false again afterwards; a content change caused
\* by anything else hides the hover and gives the focus to the editor.
C1_OwnEditKeepsHoverExternalEditHides ==
    listening =>
        /\ hoverVisible /\ ~editorUpdatedByColorPicker
        /\ \A i \in 1..Len(fetches) :
              fetches[i].stage = "fetched" =>
                 LET r == onColorFlushed_resume(Picker, i, FALSE) IN
                 /\ r.hoverVisible /\ r.listening
                 /\ r.editorFocused = editorFocused
                 /\ ~r.editorUpdatedByColorPicker
                 /\ r.text = presentation(colorModel).label
        /\ LET r == externalEdit(Picker) IN
              ~r.hoverVisible /\ r.editorFocused /\ r.text = ExternalText

\* What holds of the own edit and of the external edit: while the flag is
\* false, a flush that resumes with a presentation in the model keeps the
\* hover and leaves the flag false, and an external edit hides the hover.
\* A flush that resumes with no presentation leaves the flag set, and the
\* next external edit hides nothing.
OwnEditKeepsHoverWithAPresentation ==
    (listening /\ ~editorUpdatedByColorPicker) =>
        /\ hoverVisible
        /\ \A i \in 1..Len(fetches) :
              fetches[i].stage = "fetched" =>
                 LET r == onColorFlushed_resume(Picker, i, FALSE) IN
                 IF colorModel.colorPresentations # <<>>
                 THEN /\ r.hoverVisible /\ r.listening
                      /\ r.editorFocused = editorFocused
                      /\ ~r.editorUpdatedByColorPicker
                      /\ r.text = presentation(colorModel).label
                 ELSE /\ Ops(r) = <<"TypeError">>
                      /\ r.editorUpdatedByColorPicker
                      /\ externalEdit(r).hoverVisible
                      /\ externalEdit(r).listening
        /\ LET r == externalEdit(Picker) IN
              ~r.hoverVisible /\ r.editorFocused /\ r.text = ExternalText

\* The hover is on screen with the focus outside the editor, a flush has
\* its presentations and another fetch is still in flight; the flush's edit
\* changes the text and keeps the hover, and an external edit made right
\* after it hides the hover and focuses the editor.
OwnEditKeepsHover_Witness ==
    /\ listening /\ hoverVisible /\ ~editorFocused
    /\ Len(fetches) = 2
    /\ colorModel.colorPresentations # <<>>
    /\ \E i \in 1..Len(fetches) :
          /\ fetches[i].stage = "fetched"
          /\ LET r == onColorFlushed_resume(Picker, i, FALSE) IN
                /\ r.text # text
                /\ r.hoverVisible /\ ~r.editorFocused
                /\ ~externalEdit(r).hoverVisible
                /\ externalEdit(r).editorFocused

\* C2: when the session's token was cancelled before the colour
\* participant's computation finished, the computation yields no part.
C2_NoPartAfterCancellation ==
    (computeStage = "finished" /\ cancelledAtYield) => yielded = <<>>

\* The handler asked the glyph widget to start showing at this line.
RequestsGlyphShow(s, line) ==
    \E i \in 1..Len(s.calls) :
        s.calls[i].op = "glyph.startShowingAt" /\ s.calls[i].line = line

\* A mouse move is suppressed: the current hover is sticky, the hover.sticky
\* option is on while text is selected, the mouse is held down after a click
\* on the hover, or the content widget is being dragged to a new size.
MoveSuppressed(sel) ==
    \/ _isCurrentSticky
    \/ _isHoverSticky /\ ~sel
    \/ _isMouseDown /\ _hoverClicked
    \/ isResizing(This)

\* C11: a mouse move over the glyph margin that is not suppressed by a sticky
\* hover or a drag hides the content hover and, when hover is enabled and the
\* target has a position, starts the glyph hover at that position's line;
\* without a position, or with hover disabled, it starts no hover.
C11_GlyphMarginMove ==
    \A target \in TargetsAt(This), sel \in BOOLEAN :
        (target.type = "GUTTER_GLYPH_MARGIN" /\ ~MoveSuppressed(sel)) =>
            LET r == _onEditorMouseMove(This, target, sel) IN
            /\ ~ContentActive(r)
            /\ (_isHoverEnabled /\ target.line # NoLine)
                  => /\ GlyphActive(r)
                     /\ RequestsGlyphShow(r, target.line)
                     /\ \A l \in Lines : RequestsGlyphShow(r, l) => l = target.line
            /\ ~(_isHoverEnabled /\ target.line # NoLine) => ~RequestsAnyShow(r)

\* C11's case: the content hover is on screen, nothing suppresses the move;
\* a move over the glyph margin at line 2 hides it and starts the glyph hover
\* at line 2.
C11_Witness ==
    /\ ContentActive(This) /\ ~GlyphActive(This) /\ _isHoverEnabled
    /\ ~MoveSuppressed(TRUE)
    /\ \E target \in TargetsAt(This) :
          /\ target.type = "GUTTER_GLYPH_MARGIN" /\ target.line = 2
          /\ LET r == _onEditorMouseMove(This, target, TRUE) IN
                ~ContentActive(r) /\ GlyphActive(r) /\ RequestsGlyphShow(r, 2)

\* The start requests a handler made of the content widget.
ContentStarts(s) ==
    { i \in 1..Len(s.calls) : s.calls[i].op = "content.startShowingAt" }

\* C12: showContentHover(range, mode, focus, sticky) sets the current sticky
\* flag to the requested value (false when omitted) and starts the content
\* hover once, with exactly the given range, mode and focus, creating the
\* widget if needed; the Show Hover action calls it with mode Immediate unless
\* a mode is given, with the requested sticky value, and with a focus flag
\* that is the same whatever the sticky argument is.
C12_ShowContentHoverAsRequested ==
    /\ \A range \in TargetRanges, mode \in HoverStartModes,
          focus \in BOOLEAN, sticky \in StickyArgs :
          LET r == showContentHover(This, range, mode, focus, sticky) IN
          /\ r.isCurrentSticky = (sticky = "true")
          /\ r.contentWidget.exists /\ ContentActive(r)
          /\ Cardinality(ContentStarts(r)) = 1
          /\ RequestsShow(r, range, mode, focus)
    /\ \A args \in ShowHoverArgs, pos \in Positions, acc \in BOOLEAN :
          LET r == ShowHoverAction_run(This, TRUE, TRUE, args, pos, acc) IN
          /\ r.isCurrentSticky = (args.sticky = "true")
          /\ \A i \in ContentStarts(r) :
                /\ r.calls[i].mode = (IF args.mode = "undefined" THEN "Immediate" ELSE args.mode)
                /\ r.calls[i].sticky = (args.sticky = "true")
                /\ \A other \in StickyArgs :
                      LET r2 == ShowHoverAction_run(This, TRUE, TRUE,
                                    [args EXCEPT !.sticky = other], pos, acc) IN
                      \A j \in ContentStarts(r2) : r2.calls[j].focus = r.calls[i].focus

\* C13: in every reachable state in which the current-sticky flag is true the
\* content hover is showing or being started; the flag is never true while
\* both hovers are hidden or only the glyph hover shows.
C13_StickyOnlyWhileContentShows == _isCurrentSticky => ContentActive(This)

\* C14: a colour-flushed event applies no edit before its presentations
\* have been fetched (neither the listener up to its await nor the arrival
\* of an answer calls the editor), and once they have been fetched the
\* listener calls executeEdits exactly once, with the primary edit followed
\* by all additional edits of the presentation, and then pushUndoStop
\* exactly once.
C14_OneEditTransactionPerFlush ==
    /\ listening => onColorFlushed(Picker, colorModel.color).calls = <<>>
    /\ \A i \in 1..Len(fetches) :
          /\ fetches[i].stage = "requested" =>
                \A answer \in ProviderAnswers(fetches[i].color, fetches[i].range) :
                    _updateColorPresentations_resume(Picker, i, answer).calls = <<>>
          /\ fetches[i].stage = "fetched" =>
                \A gone \in BOOLEAN :
                    LET r == onColorFlushed_resume(Picker, i, gone)
                        pres == presentation(colorModel)
                        edits == r.calls[1].edits
                    IN /\ Ops(r) = <<"executeEdits", "pushUndoStop">>
                       /\ Len(edits) = 1 + Len(pres.additionalTextEdits)
                       /\ edits[1].text = pres.label
                       /\ edits[1] \notin { pres.additionalTextEdits[k] :
                                              k \in 1..Len(pres.additionalTextEdits) }
                       /\ SubSeq(edits, 2, Len(edits)) = pres.additionalTextEdits

\* What holds of the transaction: a flush listener that resumes while the
\* model holds a presentation makes the one executeEdits call, with the
\* primary edit and then the additional edits, and the one pushUndoStop
\* call; one that resumes with an empty list makes neither.
OneEditTransactionWithAPresentation ==
    /\ listening => onColorFlushed(Picker, colorModel.color).calls = <<>>
    /\ \A i \in 1..Len(fetches) :
          /\ fetches[i].stage = "requested" =>
                \A answer \in ProviderAnswers(fetches[i].color, fetches[i].range) :
                    _updateColorPresentations_resume(Picker, i, answer).calls = <<>>
          /\ fetches[i].stage = "fetched" =>
                \A gone \in BOOLEAN :
                    LET r == onColorFlushed_resume(Picker, i, gone)
                        pres == presentation(colorModel)
                        edits == r.calls[1].edits
                    IN IF colorModel.colorPresentations = <<>>
                       THEN Ops(r) = <<"TypeError">> /\ r.text = text
                       ELSE /\ Ops(r) = <<"executeEdits", "pushUndoStop">>
                            /\ Len(edits) = 1 + Len(pres.additionalTextEdits)
                            /\ edits[1].text = pres.label
                            /\ SubSeq(edits, 2, Len(edits)) = pres.additionalTextEdits

\* A flush has its presentations, the presentation carries an additional
\* edit, and another request is still in flight.
OneEditTransaction_Witness ==
    /\ listening
    /\ Len(fetches) = 2
    /\ colorModel.colorPresentations # <<>>
    /\ presentation(colorModel).additionalTextEdits # <<>>
    /\ \E i, j \in 1..Len(fetches) :
          /\ fetches[i].stage = "fetched" /\ fetches[j].stage = "requested"
          /\ Len(onColorFlushed_resume(Picker, i, FALSE).calls[1].edits) = 2

\* C15: the programmatic-edit flag is one-shot.  A state of the model lies
\* between two handlers, so no picker edit is in progress in it: the flag
\* is false in every state.
C15_FlagFalseBetweenEdits == ~editorUpdatedByColorPicker

\* The range the primary edit of a resuming flush listener replaces.
EditTarget(p, i) == onColorFlushed_resume(p, i, FALSE).calls[1].edits[1].range

\* A flush listener is about to resume and the model holds a presentation.
ResumesWithAPresentation(i) ==
    fetches[i].stage = "fetched" /\ colorModel.colorPresentations # <<>>

\* C16: the range used for the next fetch and for the next edit is the
\* tracked range as the picker's edits left it: a request is made for that
\* range, and a flush listener that resumes replaces that range, never the
\* range as it was before an earlier edit.
C16_NextEditTargetsTrackedRange ==
    /\ listening =>
          \E f \in { onColorFlushed(Picker, colorModel.color).fetches[k] :
                       k \in 1..(Len(fetches) + 1) } :
              f.stage = "requested" /\ f.range = pickerRange
    /\ \A i \in 1..Len(fetches) :
          ResumesWithAPresentation(i) => EditTarget(Picker, i) = pickerRange

(***************************************************************************)
(* Properties of the input surfaces.                                       *)
(***************************************************************************)
\* How many times a handler made a surface emit an event.
Emitted(b, op, surface) ==
    Cardinality({ i \in 1..Len(b.calls) :
                    b.calls[i].op = op /\ b.calls[i].surface = surface })

\* A drag of pointer p is in progress on the surface: the pointer went down
\* on it and has not been released.
Dragging(p, surface) == pointers[p] = surface

\* During a drag no pointer-move emits onColorFlushed, on any surface, and
\* a move the monitor passes on emits onDidChange of the dragged surface.
MovesOnlyChange(p, surface) ==
    \A offset \in Offsets :
        LET r == onPointerMove(Body, p, offset) IN
        /\ \A other \in Surfaces : Emitted(r, "onColorFlushed", other) = 0
        /\ \A other \in Surfaces \ {surface} : Emitted(r, "onDidChange", other) = 0
        /\ isMonitoring(Body, surface, p) => Emitted(r, "onDidChange", surface) = 1

\* The pointer-up of the drag makes the surface emit onColorFlushed exactly
\* once and leaves no monitor of the surface monitoring the pointer.
UpFlushesOnce(p, surface) ==
    LET r == onPointerUp(Body, p) IN
    /\ Emitted(r, "onColorFlushed", surface) = 1
    /\ Emitted(r, "onDidChange", surface) = 0
    /\ ~isMonitoring(r, surface, p)
    /\ r.upListeners[surface] = {}

\* C17 as stated: for every drag on the saturation box or on a strip, the
\* pointer-moves emit only onDidChange and the pointer-up that ends the drag
\* emits exactly one onColorFlushed and stops the monitoring.
C17_EveryDragFlushesOnceAtPointerUp ==
    \A p \in Pointers, surface \in Surfaces :
        Dragging(p, surface) =>
            MovesOnlyChange(p, surface) /\ UpFlushesOnce(p, surface)

\* C17 as the code has it: the pointer-moves of every drag emit only
\* onDidChange; the pointer-up that ends the drag emits exactly one
\* onColorFlushed and stops the monitoring when the drag's pointer-up
\* listener is the only one registered on the surface, that is when no other
\* pointer was pressed on the surface and none was released anywhere in the
\* document since the drag began.  Every pointer-up in the document fires
\* every registered listener.
C17_DragAloneFlushesOnceAtPointerUp ==
    \A p \in Pointers, surface \in Surfaces :
        Dragging(p, surface) =>
            /\ MovesOnlyChange(p, surface)
            /\ upListeners[surface] = {p} => UpFlushesOnce(p, surface)
            /\ \A q \in Pointers \ {p} :
                  pointers[q] # "up" =>
                     Emitted(onPointerUp(Body, q), "onColorFlushed", surface)
                        = Cardinality(upListeners[surface])

\* C17's case: a drag is monitored on a strip after the slider has been
\* moved away from where layout() put it, its listener is the only one of
\* the strip, and a second pointer is down on another surface.
C17_Witness ==
    \E p, q \in Pointers, strip \in Strips :
        /\ p # q
        /\ Dragging(p, strip) /\ isMonitoring(Body, strip, p)
        /\ upListeners[strip] = {p}
        /\ pointers[q] \in Surfaces \ {strip}
        /\ Emitted(onPointerUp(Body, p), "onColorFlushed", strip) = 1
        /\ \E offset \in Offsets :
              onPointerMove(Body, p, offset).sliders[strip] # sliders[strip]

\* Where the marker of a surface is: the selection circle of the box, the
\* slider of a strip.
Marker(b, surface) ==
    IF surface = "saturation" THEN b.selection ELSE b.sliders[surface]

\* A monitored drag is in progress on the surface.
DragMonitored(surface) ==
    \E p \in Pointers : Dragging(p, surface) /\ isMonitoring(Body, surface, p)

\* The surface's colour-change callback leaves the surface as it is.
IgnoresModelColor(surface) ==
    \A color \in SurfaceColors :
        LET r == onDidChangeColor_of(Body, surface, color) IN
        /\ Emitted(r, "paint", surface) = 0
        /\ Marker(r, surface) = Marker(Body, surface)

\* C18: while a drag is in progress on an input surface (saturation box,
\* hue strip or opacity strip), a model colour-change callback does not
\* repaint that surface and does not move its selection marker or slider.
C18_DragIgnoresModelColor ==
    \A surface \in Surfaces : DragMonitored(surface) => IgnoresModelColor(surface)

\* C19: when the colour model has no presentations at the time a text edit
\* is requested (a flush listener resumes after a provider answer of
\* undefined or []), _updateEditorModel does not fail: it applies one edit
\* transaction whose primary edit puts the raw formatting of the model's
\* colour at the range it is given, and it returns a range.
C19_EditWithoutPresentations ==
    colorModel.colorPresentations = <<>> =>
        \A gone \in BOOLEAN :
            LET r == _updateEditorModel(Picker, gone) IN
            /\ Ops(r) = <<"executeEdits", "pushUndoStop">>
            /\ r.calls[1].edits = <<[range |-> pickerRange,
                                     text |-> RawPresentation(colorModel.color)]>>
            /\ r.text = RawPresentation(colorModel.color)
            /\ r.range = IF gone THEN pickerRange
                         ELSE TrackedRangeAfter(r.calls[1].edits[1])

\* The model's presentation list is non-empty and its index points into it
\* (the index counts from 0).
HasCurrentPresentation(model) ==
    /\ model.colorPresentations # <<>>
    /\ model.presentationIndex \in 0..(Len(model.colorPresentations) - 1)

\* C20: after createColorHover and after every presentation refresh,
\* whatever the provider returned, the colour model's presentation list is
\* non-empty and its current presentation index is a valid index into it.
C20_PresentationsNeverEmpty ==
    /\ \A color \in Colors :
          \A originalText \in OriginalTexts(color) :
              \A answer \in HoverAnswers(color, RangeOf(originalText)) :
                  HasCurrentPresentation(createColorHover(color, originalText, answer))
    /\ HasCurrentPresentation(colorModel)
    /\ \A i \in 1..Len(fetches) :
          fetches[i].stage = "requested" =>
              \A answer \in ProviderAnswers(fetches[i].color, fetches[i].range) :
                  HasCurrentPresentation(
                      _updateColorPresentations_resume(Picker, i, answer).colorModel)

(***************************************************************************)
(* Properties of the standalone colour picker.                             *)
(***************************************************************************)
\* The handler left the buffer and the editor alone.
NoEdit_by(r) == r.calls = <<>> /\ r.text = text

\* C21: in the standalone picker no colour change and no flush edits the
\* buffer, nor does the arrival of the presentations of a colour change;
\* every colour change requests the presentations of the new colour; the
\* only handler that calls executeEdits is updateEditorModel, after its
\* fetch (with no presentation in the model it fails before the call), and
\* updateEditorModel itself applies no edit before that.
C21_StandaloneEditsOnlyOnRequest ==
    pickerType = "standalone" =>
      /\ \A c \in Colors :
            LET r == Standalone_onDidChangeColor([Picker EXCEPT !.colorModel.color = c], c)
            IN /\ NoEdit_by(r)
               /\ Len(r.fetches) = Len(fetches) + 1
               /\ \E k \in 1..Len(r.fetches) :
                     /\ r.fetches[k] = [kind |-> "change", color |-> c,
                                        range |-> pickerRange, stage |-> "requested"]
                     /\ RemoveAt(r.fetches, k) = fetches
      /\ LET r == Standalone_onColorFlushed(Picker, colorModel.color)
         IN NoEdit_by(r) /\ r.fetches = fetches
                         /\ r.colorModel = colorModel
      /\ \A hasModel \in BOOLEAN : NoEdit_by(updateEditorModel(Picker, hasModel))
      /\ \A i \in 1..Len(fetches) :
            /\ fetches[i].stage = "requested" =>
                  \A answer \in ProviderAnswers(fetches[i].color, fetches[i].range) :
                      NoEdit_by(_updateColorPresentations_resume(Picker, i, answer))
            /\ fetches[i].stage = "fetched" =>
                  /\ fetches[i].kind = "update"
                  /\ Ops(updateEditorModel_resume(Picker, i, FALSE))
                        = IF colorModel.colorPresentations # <<>>
                          THEN <<"executeEdits", "pushUndoStop">>
                          ELSE <<"TypeError">>

\* C21's case: the colour was changed and flushed, the buffer still holds
\* the text it had, the presentations of a change are in flight and an
\* explicitly invoked updateEditorModel is about to edit.
C21_Witness ==
    /\ pickerType = "standalone" /\ listening
    /\ _color # NoColor /\ text # ProviderPresentation(_color)
    /\ text # RawPresentation(_color)
    /\ \E i, j \in 1..Len(fetches) :
          /\ fetches[i].kind = "change" /\ fetches[i].stage = "requested"
          /\ fetches[j].kind = "update" /\ fetches[j].stage = "fetched"
          /\ updateEditorModel_resume(Picker, j, FALSE).text # text

(***************************************************************************)
(* Properties of the colour hover participant's rendering.                 *)
(***************************************************************************)
\* No decoration of the list is a colour decoration with colour data.
NoColorAt(ds) == \A i \in 1..Len(ds) : ~(ds[i].isColor /\ ds[i].hasData)

\* There is nothing for the participant to show.
NothingToShow == ~editorHasModel \/ ~hasColorDetector \/ NoColorAt(lineDecorations)

\* C22: when the editor has no model, no colour detector exists, or no line
\* decoration is a colour decoration with colour data, computeAsync returns
\* an empty list without awaiting anything; and renderHoverParts called with
\* an empty list creates no colour picker, returns Disposable.None and
\* leaves the participant's picker field as it was.
C22_NothingToShowYieldsNothing ==
    /\ (computeStage = "notStarted" /\ NothingToShow) =>
          LET c == _computeAsync(editorHasModel, hasColorDetector, lineDecorations)
          IN ~c.awaits /\ c.result = <<>>
    /\ (computeStage = "finished" /\ NothingToShow) => yielded = <<>>
    /\ \A hasModel \in BOOLEAN :
          LET r == renderHoverParts(Participant, <<>>, hasModel)
          IN /\ ~r.created
             /\ r.returned = "Disposable.None"
             /\ r._colorPicker = _colorPicker

\* C22's case: an earlier hover rendered a picker; now the computation has
\* finished over a line whose only colour decoration has no colour data, in
\* an editor with a model and a colour detector, and yielded nothing.
C22_Witness ==
    /\ computeStage = "finished" /\ yielded = <<>>
    /\ editorHasModel /\ hasColorDetector
    /\ \E i \in 1..Len(lineDecorations) : lineDecorations[i].isColor
    /\ NoColorAt(lineDecorations)
    /\ _colorPicker = "disposed"
    /\ renderHoverParts(Participant, yielded, TRUE).returned = "Disposable.None"

\* C29: isColorPickerVisible() returns true exactly while a colour picker
\* created by renderHoverParts exists and has not been disposed.
C29_VisibleExactlyWhileLive ==
    Participant_isColorPickerVisible(Participant) <=> (_colorPicker = "live")

(***************************************************************************)
(* Properties of the hover accessible view and accessibility help.         *)
(***************************************************************************)
\* C23: getProvider of the hover accessible view and of the hover
\* accessibility help raises an error when there is neither an active nor a
\* focused code editor, and returns no provider without raising when the
\* editor it finds has no hover controller.
C23_GetProviderWithoutEditorOrController ==
    LET v == View_getProvider(AccessibleView, activeCodeEditor, focusedCodeEditor,
                              hoverControllers)
        h == Help_getProvider(activeCodeEditor, focusedCodeEditor, hoverControllers)
        codeEditor == OrElse(activeCodeEditor, focusedCodeEditor)
    IN /\ (activeCodeEditor = NoEditor /\ focusedCodeEditor = NoEditor) =>
             v.outcome = "Error" /\ h = "Error"
       /\ (codeEditor # NoEditor /\ codeEditor \notin hoverControllers) =>
             /\ v.outcome = "undefined"
             /\ v.view = AccessibleView
             /\ h = "undefined"

\* Both cases have happened: a call has raised, and now the editor found
\* (the focused one, none being active) has no controller although another
\* editor has one and a provider was created for it before.
C23_Witness ==
    /\ activeCodeEditor = NoEditor
    /\ focusedCodeEditor # NoEditor
    /\ focusedCodeEditor \notin hoverControllers
    /\ viewProvider # NoEditor
    /\ lastOutcome = "undefined"

(***************************************************************************)
(* Properties of the surfaces' arithmetic.                                 *)
(***************************************************************************)
InUnitInterval(x) == x.kind = "finite" /\ 0 <= x.n /\ x.n <= x.d

\* C24: every value emitted through onDidChange by the saturation box (s and
\* v) and by a strip lies in [0,1], for every pointer position and every
\* measured width and height of the surface.
C24_EmittedValuesInUnitInterval ==
    /\ InUnitInterval(emitted.s)
    /\ InUnitInterval(emitted.v)

(***************************************************************************)
(* Further properties of the hover controller.                             *)
(***************************************************************************)
\* The handler made this widget call.
Calling(r, op) == \E i \in 1..Len(r.calls) : r.calls[i].op = op

\* A handler's outcome r from state s created no widget beside the first.
ReusesWidgets(s, r) ==
    /\ r.contentWidget.instance <= 1
    /\ r.glyphWidget.instance <= 1
    /\ s.contentWidget.exists => r.contentWidget.instance = s.contentWidget.instance
    /\ s.glyphWidget.exists => r.glyphWidget.instance = s.glyphWidget.instance

\* C25: a hover controller creates at most one content hover widget and at
\* most one glyph hover widget during its lifetime: each is created on first
\* need, and every later show of that kind, by mouse move or by
\* showContentHover, reuses the same instance.
C25_OneWidgetOfEachKind ==
    /\ _contentWidget.instance = (IF _contentWidget.exists THEN 1 ELSE 0)
    /\ _glyphWidget.instance = (IF _glyphWidget.exists THEN 1 ELSE 0)
    /\ \A target \in TargetsAt(This), selectionCollapsed \in BOOLEAN :
          ReusesWidgets(This, _onEditorMouseMove(This, target, selectionCollapsed))
    /\ \A range \in TargetRanges, mode \in HoverStartModes, focus \in BOOLEAN,
          sticky \in StickyArgs :
          ReusesWidgets(This, showContentHover(This, range, mode, focus, sticky))

\* Both widgets exist, and from here a mouse move shows the content hover,
\* another mouse move shows the glyph hover and showContentHover shows the
\* content hover.
C25_Witness ==
    /\ _contentWidget.exists
    /\ _glyphWidget.exists
    /\ \E target \in TargetsAt(This) :
          Calling(_onEditorMouseMove(This, target, TRUE), "content.startShowingAt")
    /\ \E target \in TargetsAt(This) :
          Calling(_onEditorMouseMove(This, target, TRUE), "glyph.startShowingAt")
    /\ \E range \in TargetRanges :
          Calling(showContentHover(This, range, "Immediate", FALSE, "false"),
                  "content.startShowingAt")

\* The mouse targets on the content hover widget.
OnContentHover(s) ==
    { target \in TargetsAt(s) :
        target.type = "CONTENT_WIDGET" /\ target.detail = ContentHoverID }

\* The mouse is down after a mouse-down on the content hover widget.
DraggingOnHover(s) == s.isMouseDown /\ s.hoverClicked

\* C30 as stated: when the mouse moves onto the content hover widget and the
\* current hover is not sticky, then with the hover.sticky option on the
\* hover state is unchanged, and with the option off both hovers are hidden
\* unless the colour picker is visible, in which case the state is unchanged.
C30_MoveOntoHoverAsStated ==
    \A target \in OnContentHover(This), selectionCollapsed \in BOOLEAN :
        LET r == _onEditorMouseMove(This, target, selectionCollapsed) IN
        ~_isCurrentSticky =>
            /\ _isHoverSticky => r = This
            /\ (~_isHoverSticky /\ isColorPickerVisible(This)) => r = This
            /\ (~_isHoverSticky /\ ~isColorPickerVisible(This)) => Hidden(r)

\* C30 as amended: the same, except that with the option off the state is
\* also unchanged while the content hover widget is being resized and while
\* the mouse is down after a mouse-down on the content hover widget.
C30_MoveOntoHoverUnlessResizingOrDragging ==
    \A target \in OnContentHover(This), selectionCollapsed \in BOOLEAN :
        LET r == _onEditorMouseMove(This, target, selectionCollapsed)
            kept == \/ isColorPickerVisible(This)
                    \/ isResizing(This)
                    \/ DraggingOnHover(This)
        IN ~_isCurrentSticky =>
            /\ _isHoverSticky => r = This
            /\ (~_isHoverSticky /\ kept) => r = This
            /\ (~_isHoverSticky /\ ~kept) =>
                  Hidden(r) /\ ~r.hoverClicked /\ ~r.isCurrentSticky

\* C30's case: the option is off, a content hover that is not sticky is on
\* screen with a colour picker, the mouse is up, and a move onto the hover
\* changes nothing.
C30_Witness ==
    /\ ~_isCurrentSticky /\ ~_isHoverSticky
    /\ isColorPickerVisible(This) /\ ~isResizing(This) /\ ~DraggingOnHover(This)
    /\ \E target \in OnContentHover(This) :
          _onEditorMouseMove(This, target, TRUE) = This

(***************************************************************************)
(* Properties of a disposed colour picker widget.                          *)
(***************************************************************************)
\* C26: after a colour picker widget is disposed none of its listeners
\* remains active: a later pointer-up emits no onColorFlushed and triggers no
\* model flush, also when the widget is disposed in the middle of a drag.
C26_DisposedWidgetIsSilent ==
    bodyDisposed =>
        /\ Registered(Body) = {}
        /\ \A p \in Pointers :
              pointers[p] # "up" =>
                  \A surface \in Surfaces :
                      /\ Emitted(onPointerUp(Body, p), "onColorFlushed", surface) = 0
                      /\ Emitted(onPointerUp(Body, p), "model.flushColor", surface) = 0

(***************************************************************************)
(* Properties of the hover picker's edits under concurrent requests.       *)
(***************************************************************************)
\* The text the primary edit of a resuming flush listener writes.
EditText(p, i) == onColorFlushed_resume(p, i, FALSE).calls[1].edits[1].text

\* C27: the text written by a hover-picker edit for a flush is the provider's
\* presentation for that flush's colour and range, in every interleaving of
\* colour changes, flushes and provider responses.  Stated for every flush
\* listener about to resume while the model holds presentations.
C27_EditWritesTheFlushsPresentation ==
    \A i \in 1..Len(fetches) :
        (/\ fetches[i].kind = "flush"
         /\ fetches[i].stage = "fetched"
         /\ colorModel.colorPresentations # <<>>) =>
            /\ EditText(Picker, i) = ProviderPresentation(fetches[i].color)
            /\ presentation(colorModel) \in
                   ProviderPresentations(fetches[i].color, fetches[i].range)

\* C28: once the hover picker has been hidden because of an external buffer
\* change, or has been disposed, a flush that was still waiting for the
\* provider's presentations applies no text edit to the buffer.
C28_NoEditAfterHideOrDispose ==
    \A i \in 1..Len(fetches) :
        (/\ ~listening
         /\ fetches[i].kind = "flush"
         /\ fetches[i].stage = "fetched") =>
            LET r == onColorFlushed_resume(Picker, i, FALSE)
            IN /\ \A k \in 1..Len(r.calls) : r.calls[k].op # "executeEdits"
               /\ r.text = text

(***************************************************************************)
(* The content widget's blur after the listeners were hooked again.        *)
(***************************************************************************)
\* C31: whenever the content hover widget loses focus while the current
\* hover is sticky, the controller hides both hovers and clears the sticky
\* flag, in every reachable state of a controller that is not disposed, also
\* after the hover option changed and the controller unhooked and hooked its
\* listeners again.
C31_BlurHidesStickyHover ==
    (/\ ~controllerDisposed
     /\ _contentWidget.exists /\ _contentWidget.state = "visible" /\ _isCurrentSticky) =>
        LET r == contentWidget_onBlur(This)
        IN Hidden(r) /\ ~r.isCurrentSticky

(***************************************************************************)
(* The hue strip's round trip.                                             *)
(***************************************************************************)
\* C32: for every slider value v in [0,1], setting the model's hue from v
\* (onDidHueChange) and reading the slider value back from the resulting
\* colour (HueStrip.getValue) gives v again, so that the model's
\* colour-change callback leaves the hue slider where the pointer put it.
C32_HueRoundTrip ==
    /\ \A value \in Values :
          getValue("hue", onDidHueChange(Body, value).color) = value
    /\ \A top \in Offsets :
          onDidChangeTop(Body, "hue", top).sliders["hue"] = Clamp01(MaxValue - top)

(***************************************************************************)
(* Properties of the utility-process worker service.                       *)
(***************************************************************************)
\* The workers constructed for a configuration whose process has not ended.
NotTerminated(c) ==
    {w \in 1..spawned : workerConfig[w] = c /\ process[w] \in {"running", "killed"}}

\* What createWorker does, in order, when it finds worker w registered:
\* kill it, dispose it, delete its registration, and only then spawn.
EndsBeforeSpawn(s, w) ==
    /\ Len(s.calls) >= 4
    /\ s.calls[1] = [op |-> "kill", worker |-> w]
    /\ \E i, j, k \in 1..Len(s.calls) :
          /\ i < j /\ j < k
          /\ s.calls[i] = [op |-> "dispose", worker |-> w]
          /\ s.calls[j] = [op |-> "workers.delete", worker |-> w]
          /\ s.calls[k].op = "spawn"
          /\ \A n \in 1..(k - 1) : s.calls[n].op # "spawn"

\* C33: every configuration has at most one registered worker, the most
\* recently spawned worker of that configuration that has not terminated, and
\* createWorker for a configuration with a registered worker kills and
\* disposes that worker and removes its registration before it spawns the
\* new one.
C33_OneWorkerPerConfiguration ==
    \A c \in Configurations :
        workers[hash(c)] # NoWorker =>
            LET w == workers[hash(c)]
            IN /\ workerConfig[w] = c
               /\ process[w] = "running"
               /\ ~workerDisposed[w]
               /\ \A v \in NotTerminated(c) : v <= w
               /\ \A d \in Configurations : workers[hash(d)] = w => d = c
               /\ spawned < MaxWorkers =>
                    \A spawnOk \in BOOLEAN, exitInKill \in BOOLEAN :
                        LET r == createWorker(Service, c, spawnOk, exitInKill)
                        IN /\ EndsBeforeSpawn(r, w)
                           /\ r.disposed[w]
                           /\ r.process[w] # "running"
                           /\ r.workers[hash(c)] = IF spawnOk THEN r.spawned ELSE NoWorker

\* A worker registered for a configuration after an earlier worker of the
\* same configuration was replaced, with room for another createWorker.
C33_Witness ==
    \E c \in Configurations :
        /\ workers[hash(c)] # NoWorker
        /\ spawned < MaxWorkers
        /\ \E v \in 1..spawned :
              /\ v < workers[hash(c)]
              /\ workerConfig[v] = c
              /\ workerDisposed[v]
              /\ process[v] = "killed"

\* The utility process of worker w, once killed, does exit.
KilledProcessExits(w) ==
    /\ process[w] = "killed"
    /\ ServiceBecomes(utilityProcess_onExit(Service, w, "exit"))

\* The worker service where every killed utility process exits in the end.
SpecWorkerLive ==
    WorkerInit /\ [][NextWorker]_vars /\ \A w \in Workers : WF_vars(KilledProcessExits(w))

\* C34: every promise returned by createWorker resolves: at once with
\* EINVALID and nothing registered when the spawn fails, otherwise with the
\* exit reason once the worker is no longer running, whether it exited,
\* crashed, was ended by disposeWorker or was replaced by a later createWorker.
C34_EveryPromiseResolves ==
    /\ [](\A c \in Configurations :
            spawned < MaxWorkers =>
                LET r == createWorker(Service, c, FALSE, FALSE)
                IN r.promise[r.spawned] = "EINVALID" /\ r.workers[hash(c)] = NoWorker)
    /\ \A w \in Workers :
          (promise[w] = "pending" /\ process[w] # "running") ~> (promise[w] # "pending")

\* The promises of workers that exit or crash while registered do resolve.
C34_RegisteredWorkersPromiseResolves ==
    \A w \in Workers :
        (promise[w] = "pending" /\ ~workerDisposed[w]) => process[w] = "running"

(***************************************************************************)
(* Properties of the update service.                                       *)
(***************************************************************************)
\* What an operation did: it invoked exactly this hook and nothing else.
OnlyInvoked(r, name) == r = Hook(UpdateService, name)

\* C35: each operation acts only in its enabling state (checkForUpdates in
\* Idle, downloadUpdate in AvailableForDownload, applyUpdate in Downloaded,
\* quitAndInstall in Ready); in any other state, Uninitialized among them, it
\* changes no state, fires no onStateChange and invokes no hook; and
\* quitAndInstall invokes the install hook only when the lifecycle quit was
\* not vetoed.
C35_OperationsActOnlyInTheirState ==
    LET u == UpdateService
    IN /\ \A explicit \in BOOLEAN :
             IF updateState = "idle"
             THEN OnlyInvoked(checkForUpdates(u, explicit), "doCheckForUpdates")
             ELSE checkForUpdates(u, explicit) = u
       /\ IF updateState = "available for download"
          THEN OnlyInvoked(downloadUpdate(u), "doDownloadUpdate")
          ELSE downloadUpdate(u) = u
       /\ IF updateState = "downloaded"
          THEN OnlyInvoked(applyUpdate(u), "doApplyUpdate")
          ELSE applyUpdate(u) = u
       /\ IF updateState = "ready"
          THEN quitAndInstall(u) = [u EXCEPT !.quits = @ + 1]
          ELSE quitAndInstall(u) = u
       /\ quits > 0 =>
             /\ quit_then(u, TRUE) = [u EXCEPT !.quits = @ - 1]
             /\ quit_then(u, FALSE) = Hook([u EXCEPT !.quits = @ - 1], "doQuitAndInstall")
       /\ (~initialized \/ ~updateUrl) => updateState = "uninitialized"

\* The lifecycle is still to answer a quit that quitAndInstall asked for in
\* Ready, after a check was handed to the platform.
C35_Witness ==
    /\ quits > 0
    /\ updateState = "ready"
    /\ hooks = <<"doCheckForUpdates">>

(***************************************************************************)
(* Properties of the references model.                                     *)
(***************************************************************************)
\* The references reached from r by up to n steps along step, which gives
\* for each reference the one nextOrPreviousReference returns: r first, then
\* the reference after one step, and so on; a step that threw has no next.
RECURSIVE Orbit(_, _, _)
Orbit(step, r, n) ==
    IF n = 0 THEN <<r>>
    ELSE LET orbit == Orbit(step, r, n - 1)
             reached == orbit[Len(orbit)]
         IN Append(orbit, IF reached = TypeError THEN TypeError ELSE step[reached])

\* The references in group order and then child order.
RECURSIVE InGroupOrder(_, _)
InGroupOrder(m, g) ==
    IF g = 0 THEN <<>> ELSE InGroupOrder(m, g - 1) \o m.files[m.groups[g]].children

\* Next and previous are inverse on m and stepping next goes once round
\* its references in group order and then child order.
CyclesInOrder(m) ==
    LET n == Len(m.references)
        order == InGroupOrder(m, Len(m.groups))
        nextOf == [r \in 1..n |-> nextOrPreviousReference(m, r, TRUE)]
        previousOf == [r \in 1..n |-> nextOrPreviousReference(m, r, FALSE)]
    IN /\ Len(order) = n
       /\ \A r \in 1..n :
             LET orbit == Orbit(nextOf, r, n)
             IN /\ Orbit(previousOf, nextOf[r], 1)[2] = r
                /\ Orbit(nextOf, previousOf[r], 1)[2] = r
                /\ orbit[n + 1] = r
                /\ \A k \in 2..n : orbit[k] # r
                /\ {orbit[k] : k \in 1..n} = 1..n
                /\ \A i \in 1..n :
                      order[i] = r => nextOf[r] = order[(i % n) + 1]

\* C36 as stated: in a model with at least one reference, for every
\* reference r, the next and then the previous reference is r, and so the
\* other way round; stepping next visits every reference exactly once, in
\* group order and then child order, before it returns to r.
C36_NextAndPreviousAreInverse ==
    references # <<>> => CyclesInOrder(Model)

\* C36: in a model that is not empty (isEmpty is false: it has a group, which
\* a model with references has until it is disposed), whatever ranges its
\* references have been given, for every reference r, the next and then the
\* previous reference is r, and so the other way round; stepping next
\* visits every reference exactly once, in group order and then child
\* order, before it returns to r.
C36_NextAndPreviousAreInverseUnlessEmpty ==
    ~isEmpty(Model) =>
        /\ references # <<>>
        /\ CyclesInOrder(Model)

\* A model of two files, one of them with two references, one of them with
\* a range set since, and the widget at the last reference of the first
\* file after a step.
C36_Witness ==
    /\ Len(groups) = 2
    /\ Len(references) = 3
    /\ Len(files[groups[1]].children) = 2
    /\ fired # <<>>
    /\ current = 2

\* A disposed model with references: every step that leaves a file throws.
C36_DisposedModelThrows ==
    (references # <<>> /\ isEmpty(Model)) =>
        \E r \in 1..Len(references) :
            nextOrPreviousReference(Model, r, TRUE) = TypeError

\* C37: the clone of a model is equivalent to it, for every list of links:
\* the same groups, the same references in the same order, and the same
\* firstReference(), the reference of the link the provider returned first.
C37_CloneIsEquivalent ==
    LET c == clone(Model)
        Same(a, b) == a.uri = b.uri /\ a.range = b.range /\ a.parent = b.parent
                      /\ a.link = b.link
    IN /\ c.groups = groups
       /\ c.files = files
       /\ Len(c.references) = Len(references)
       /\ \A r \in 1..Len(references) : Same(c.references[r], references[r])
       /\ firstReference(c) = firstReference(Model)

\* All of the clone but isProviderFirst is the original's, for a model that
\* has not been disposed and has had no range set.
C37_CloneKeepsGroupsAndOrder ==
    (fired = <<>> /\ (references = <<>> \/ ~isEmpty(Model))) =>
        LET c == clone(Model)
        IN /\ c.groups = groups
           /\ c.files = files
           /\ c.links = links
           /\ [r \in 1..Len(c.references) |-> [c.references[r] EXCEPT !.isProviderFirst = FALSE]]
                = [r \in 1..Len(references) |-> [references[r] EXCEPT !.isProviderFirst = FALSE]]

(***************************************************************************)
(* Properties of the accessible-view providers.                            *)
(***************************************************************************)
\* The providers on which onOpen was called and onClose not yet.
Open == {i \in 1..Len(createdProviders) : createdProviders[i].opened}

\* C38: shouldKeepOpenOnEditorMouseMoveOrLeave is true whenever at least one
\* provider opened on the controller has not yet been closed, for every
\* interleaving of the open and close calls of the hover view provider and
\* the hover help provider.
C38_KeptOpenWhileAProviderIsOpen ==
    Open # {} => shouldKeepOpenOnEditorMouseMoveOrLeave

\* With one provider open at a time the flag is true exactly while it is open.
C38_KeptOpenWhileTheOnlyProviderIsOpen ==
    /\ \A i \in Open :
           Open = {i} => /\ onOpen(Providers, i).keepOpen
                         /\ ~onClose(Providers, i).keepOpen
    /\ Open = {} => ~shouldKeepOpenOnEditorMouseMoveOrLeave

\* A promise still pending when its worker is disposed stays pending in
\* every step the service can take.
C34_DisposedWorkersPromiseStaysPending ==
    [][\A w \in Workers :
          (promise[w] = "pending" /\ workerDisposed[w]) => promise'[w] = "pending"]_vars

=============================================================================
